---------------------------- MODULE Spec2Model ----------------------------
(***************************************************************************)
(* A model of src/index.js: the text transformer yap, the CLI and HTTP     *)
(* front-ends that call it, the simulated integration call and the bot     *)
(* lifecycle (startBot / stopBot and the heartbeat loop).                  *)
(*                                                                         *)
(* A JavaScript string is a sequence of UTF-16 code units.  A code unit is *)
(* written as a one-character TLA+ string when it is ASCII ("a", "-") and  *)
(* as "U+XXXX" otherwise ("U+00DF" is the sharp s).  A JavaScript value is *)
(* a record [kind, s, v]: kind names its type, s holds a string's code     *)
(* units and v a number's value.                                           *)
(***************************************************************************)
EXTENDS Integers, Sequences, FiniteSets

VARIABLES
    front,      \* which entry point the transformer run came through
    input,      \* the run's input: yap arguments, argv, or an HTTP request
    pc,         \* position of the transformer run: "entry", "done"
    out,        \* what the run produced (effective count, pieces, result)
    isRunning,  \* src/index.js:101
    loops,      \* one entry per heartbeat loop launched: "sleeping" / "ended"
    phase,      \* history, per loop: "running" until the stopBot that ends
                \* its run, then "stopped" until its next wake, then "late"
    woke,       \* history: loop l has woken since the flag was last cleared
    ret,        \* the value the last startBot / stopBot call returned
    calls,      \* number of startBot / stopBot calls made so far
    defaultAccount, \* src/index.js:102, the configuration read at load
    reqs,       \* the HTTP requests: their handler's position and locals
    sends,      \* the integrateWithService call of each request
    resps       \* the responses written for each request, in order

vars == <<front, input, pc, out, isRunning, loops, phase, woke, ret, calls,
          defaultAccount, reqs, sends, resps>>

yapVars == <<front, input, pc, out>>
botVars == <<isRunning, loops, phase, woke, ret, calls, defaultAccount>>
httpVars == <<reqs, sends, resps>>

(***************************************************************************)
(* JavaScript values and strings                                           *)
(***************************************************************************)
Str(s) == [kind |-> "string", s |-> s, v |-> 0]
Num(v) == [kind |-> "number", s |-> <<>>, v |-> v]
NaN == [kind |-> "nan", s |-> <<>>, v |-> 0]
True == [kind |-> "true", s |-> <<>>, v |-> 0]
Undefined == [kind |-> "undefined", s |-> <<>>, v |-> 0]

Max(a, b) == IF a >= b THEN a ELSE b
Min(a, b) == IF a <= b THEN a ELSE b

Digits == <<"0", "1", "2", "3", "4", "5", "6", "7", "8", "9">>
IsDigit(c) == \E k \in 1..10 : Digits[k] = c
DigitVal(c) == (CHOOSE k \in 1..10 : Digits[k] = c) - 1

RECURSIVE NatToStr(_)
NatToStr(v) ==
    IF v < 10 THEN <<Digits[v + 1]>>
    ELSE NatToStr(v \div 10) \o <<Digits[(v % 10) + 1]>>

\* Number::toString for the integers the model uses
IntToStr(v) == IF v < 0 THEN <<"-">> \o NatToStr(-v) ELSE NatToStr(v)

\* ToString of a value, as String(x), x + "" and join use it
ToString(x) ==
    CASE x.kind = "string" -> x.s
      [] x.kind = "number" -> IntToStr(x.v)
      [] x.kind = "nan" -> <<"N", "a", "N">>
      [] x.kind = "true" -> <<"t", "r", "u", "e">>
      [] OTHER -> <<"u", "n", "d", "e", "f", "i", "n", "e", "d">>

\* ToBoolean
Truthy(x) ==
    CASE x.kind = "string" -> x.s # <<>>
      [] x.kind = "number" -> x.v # 0
      [] x.kind = "true" -> TRUE
      [] OTHER -> FALSE

\* a || b
Or(a, b) == IF Truthy(a) THEN a ELSE b

\* a default of a destructuring pattern or of a parameter: only for undefined
Default(x, d) == IF x.kind = "undefined" THEN d ELSE x

StartsWith(s, p) == Len(s) >= Len(p) /\ SubSeq(s, 1, Len(p)) = p
Slice(s, k) == SubSeq(s, k + 1, Len(s))

\* the WhiteSpace and LineTerminator code units StrWhiteSpaceChar names
WhiteSpace ==
    {"\t", "\n", "U+000B", "\f", "\r", " ", "U+00A0", "U+1680", "U+2000",
     "U+2001", "U+2002", "U+2003", "U+2004", "U+2005", "U+2006", "U+2007",
     "U+2008", "U+2009", "U+200A", "U+2028", "U+2029", "U+202F", "U+205F",
     "U+3000", "U+FEFF"}

RECURSIVE SkipSpaces(_)
SkipSpaces(s) ==
    IF s # <<>> /\ Head(s) \in WhiteSpace THEN SkipSpaces(Tail(s)) ELSE s

RECURSIVE DigitPrefix(_)
DigitPrefix(s) ==
    IF s # <<>> /\ IsDigit(Head(s)) THEN <<Head(s)>> \o DigitPrefix(Tail(s))
    ELSE <<>>

RECURSIVE DigitsToNat(_, _)
DigitsToNat(ds, acc) ==
    IF ds = <<>> THEN acc
    ELSE DigitsToNat(Tail(ds), acc * 10 + DigitVal(Head(ds)))

\* parseInt(x, 10): leading white space, an optional sign, the longest run of
\* decimal digits; NaN when there is no digit
parseInt(x) ==
    LET s0 == SkipSpaces(ToString(x))
        neg == s0 # <<>> /\ Head(s0) = "-"
        s1 == IF s0 # <<>> /\ Head(s0) \in {"-", "+"} THEN Tail(s0) ELSE s0
        ds == DigitPrefix(s1)
    IN  IF ds = <<>> THEN NaN
        ELSE Num((IF neg THEN -1 ELSE 1) * DigitsToNat(ds, 0))

(***************************************************************************)
(* Case mappings.  String.prototype.toUpperCase and toLowerCase apply the  *)
(* Unicode default case conversion (the simple mappings of UnicodeData and *)
(* the unconditional ones of SpecialCasing; Unicode 17.0).  The tables     *)
(* list every code point the conversion changes, with the units it gives.  *)
(***************************************************************************)
UpperPairs ==
    <<
   <<"a", <<"A">>>>, <<"b", <<"B">>>>, <<"c", <<"C">>>>, <<"d", <<"D">>>>,
    <<"e", <<"E">>>>, <<"f", <<"F">>>>, <<"g", <<"G">>>>, <<"h", <<"H">>>>,
    <<"i", <<"I">>>>, <<"j", <<"J">>>>, <<"k", <<"K">>>>, <<"l", <<"L">>>>,
    <<"m", <<"M">>>>, <<"n", <<"N">>>>, <<"o", <<"O">>>>, <<"p", <<"P">>>>,
    <<"q", <<"Q">>>>, <<"r", <<"R">>>>, <<"s", <<"S">>>>, <<"t", <<"T">>>>,
    <<"u", <<"U">>>>, <<"v", <<"V">>>>, <<"w", <<"W">>>>, <<"x", <<"X">>>>,
    <<"y", <<"Y">>>>, <<"z", <<"Z">>>>, <<"U+00B5", <<"U+039C">>>>,
    <<"U+00DF", <<"S", "S">>>>, <<"U+00E0", <<"U+00C0">>>>,
    <<"U+00E1", <<"U+00C1">>>>, <<"U+00E2", <<"U+00C2">>>>,
    <<"U+00E3", <<"U+00C3">>>>, <<"U+00E4", <<"U+00C4">>>>,
    <<"U+00E5", <<"U+00C5">>>>, <<"U+00E6", <<"U+00C6">>>>,
    <<"U+00E7", <<"U+00C7">>>>, <<"U+00E8", <<"U+00C8">>>>,
    <<"U+00E9", <<"U+00C9">>>>, <<"U+00EA", <<"U+00CA">>>>,
    <<"U+00EB", <<"U+00CB">>>>, <<"U+00EC", <<"U+00CC">>>>,
    <<"U+00ED", <<"U+00CD">>>>, <<"U+00EE", <<"U+00CE">>>>,
    <<"U+00EF", <<"U+00CF">>>>, <<"U+00F0", <<"U+00D0">>>>,
    <<"U+00F1", <<"U+00D1">>>>, <<"U+00F2", <<"U+00D2">>>>,
    <<"U+00F3", <<"U+00D3">>>>, <<"U+00F4", <<"U+00D4">>>>,
    <<"U+00F5", <<"U+00D5">>>>, <<"U+00F6", <<"U+00D6">>>>,
    <<"U+00F8", <<"U+00D8">>>>, <<"U+00F9", <<"U+00D9">>>>,
    <<"U+00FA", <<"U+00DA">>>>, <<"U+00FB", <<"U+00DB">>>>,
    <<"U+00FC", <<"U+00DC">>>>, <<"U+00FD", <<"U+00DD">>>>,
    <<"U+00FE", <<"U+00DE">>>>, <<"U+00FF", <<"U+0178">>>>,
    <<"U+0101", <<"U+0100">>>>, <<"U+0103", <<"U+0102">>>>,
    <<"U+0105", <<"U+0104">>>>, <<"U+0107", <<"U+0106">>>>,
    <<"U+0109", <<"U+0108">>>>, <<"U+010B", <<"U+010A">>>>,
    <<"U+010D", <<"U+010C">>>>, <<"U+010F", <<"U+010E">>>>,
    <<"U+0111", <<"U+0110">>>>, <<"U+0113", <<"U+0112">>>>,
    <<"U+0115", <<"U+0114">>>>, <<"U+0117", <<"U+0116">>>>,
    <<"U+0119", <<"U+0118">>>>, <<"U+011B", <<"U+011A">>>>,
    <<"U+011D", <<"U+011C">>>>, <<"U+011F", <<"U+011E">>>>,
    <<"U+0121", <<"U+0120">>>>, <<"U+0123", <<"U+0122">>>>,
    <<"U+0125", <<"U+0124">>>>, <<"U+0127", <<"U+0126">>>>,
    <<"U+0129", <<"U+0128">>>>, <<"U+012B", <<"U+012A">>>>,
    <<"U+012D", <<"U+012C">>>>, <<"U+012F", <<"U+012E">>>>,
    <<"U+0131", <<"I">>>>, <<"U+0133", <<"U+0132">>>>,
    <<"U+0135", <<"U+0134">>>>, <<"U+0137", <<"U+0136">>>>,
    <<"U+013A", <<"U+0139">>>>, <<"U+013C", <<"U+013B">>>>,
    <<"U+013E", <<"U+013D">>>>, <<"U+0140", <<"U+013F">>>>,
    <<"U+0142", <<"U+0141">>>>, <<"U+0144", <<"U+0143">>>>,
    <<"U+0146", <<"U+0145">>>>, <<"U+0148", <<"U+0147">>>>,
    <<"U+0149", <<"U+02BC", "N">>>>, <<"U+014B", <<"U+014A">>>>,
    <<"U+014D", <<"U+014C">>>>, <<"U+014F", <<"U+014E">>>>,
    <<"U+0151", <<"U+0150">>>>, <<"U+0153", <<"U+0152">>>>,
    <<"U+0155", <<"U+0154">>>>, <<"U+0157", <<"U+0156">>>>,
    <<"U+0159", <<"U+0158">>>>, <<"U+015B", <<"U+015A">>>>,
    <<"U+015D", <<"U+015C">>>>, <<"U+015F", <<"U+015E">>>>,
    <<"U+0161", <<"U+0160">>>>, <<"U+0163", <<"U+0162">>>>,
    <<"U+0165", <<"U+0164">>>>, <<"U+0167", <<"U+0166">>>>,
    <<"U+0169", <<"U+0168">>>>, <<"U+016B", <<"U+016A">>>>,
    <<"U+016D", <<"U+016C">>>>, <<"U+016F", <<"U+016E">>>>,
    <<"U+0171", <<"U+0170">>>>, <<"U+0173", <<"U+0172">>>>,
    <<"U+0175", <<"U+0174">>>>, <<"U+0177", <<"U+0176">>>>,
    <<"U+017A", <<"U+0179">>>>, <<"U+017C", <<"U+017B">>>>,
    <<"U+017E", <<"U+017D">>>>, <<"U+017F", <<"S">>>>,
    <<"U+0180", <<"U+0243">>>>, <<"U+0183", <<"U+0182">>>>,
    <<"U+0185", <<"U+0184">>>>, <<"U+0188", <<"U+0187">>>>,
    <<"U+018C", <<"U+018B">>>>, <<"U+0192", <<"U+0191">>>>,
    <<"U+0195", <<"U+01F6">>>>, <<"U+0199", <<"U+0198">>>>,
    <<"U+019A", <<"U+023D">>>>, <<"U+019B", <<"U+A7DC">>>>,
    <<"U+019E", <<"U+0220">>>>, <<"U+01A1", <<"U+01A0">>>>,
    <<"U+01A3", <<"U+01A2">>>>, <<"U+01A5", <<"U+01A4">>>>,
    <<"U+01A8", <<"U+01A7">>>>, <<"U+01AD", <<"U+01AC">>>>,
    <<"U+01B0", <<"U+01AF">>>>, <<"U+01B4", <<"U+01B3">>>>,
    <<"U+01B6", <<"U+01B5">>>>, <<"U+01B9", <<"U+01B8">>>>,
    <<"U+01BD", <<"U+01BC">>>>, <<"U+01BF", <<"U+01F7">>>>,
    <<"U+01C5", <<"U+01C4">>>>, <<"U+01C6", <<"U+01C4">>>>,
    <<"U+01C8", <<"U+01C7">>>>, <<"U+01C9", <<"U+01C7">>>>,
    <<"U+01CB", <<"U+01CA">>>>, <<"U+01CC", <<"U+01CA">>>>,
    <<"U+01CE", <<"U+01CD">>>>, <<"U+01D0", <<"U+01CF">>>>,
    <<"U+01D2", <<"U+01D1">>>>, <<"U+01D4", <<"U+01D3">>>>,
    <<"U+01D6", <<"U+01D5">>>>, <<"U+01D8", <<"U+01D7">>>>,
    <<"U+01DA", <<"U+01D9">>>>, <<"U+01DC", <<"U+01DB">>>>,
    <<"U+01DD", <<"U+018E">>>>, <<"U+01DF", <<"U+01DE">>>>,
    <<"U+01E1", <<"U+01E0">>>>, <<"U+01E3", <<"U+01E2">>>>,
    <<"U+01E5", <<"U+01E4">>>>, <<"U+01E7", <<"U+01E6">>>>,
    <<"U+01E9", <<"U+01E8">>>>, <<"U+01EB", <<"U+01EA">>>>,
    <<"U+01ED", <<"U+01EC">>>>, <<"U+01EF", <<"U+01EE">>>>,
    <<"U+01F0", <<"J", "U+030C">>>>, <<"U+01F2", <<"U+01F1">>>>,
    <<"U+01F3", <<"U+01F1">>>>, <<"U+01F5", <<"U+01F4">>>>,
    <<"U+01F9", <<"U+01F8">>>>, <<"U+01FB", <<"U+01FA">>>>,
    <<"U+01FD", <<"U+01FC">>>>, <<"U+01FF", <<"U+01FE">>>>,
    <<"U+0201", <<"U+0200">>>>, <<"U+0203", <<"U+0202">>>>,
    <<"U+0205", <<"U+0204">>>>, <<"U+0207", <<"U+0206">>>>,
    <<"U+0209", <<"U+0208">>>>, <<"U+020B", <<"U+020A">>>>,
    <<"U+020D", <<"U+020C">>>>, <<"U+020F", <<"U+020E">>>>,
    <<"U+0211", <<"U+0210">>>>, <<"U+0213", <<"U+0212">>>>,
    <<"U+0215", <<"U+0214">>>>, <<"U+0217", <<"U+0216">>>>,
    <<"U+0219", <<"U+0218">>>>, <<"U+021B", <<"U+021A">>>>,
    <<"U+021D", <<"U+021C">>>>, <<"U+021F", <<"U+021E">>>>,
    <<"U+0223", <<"U+0222">>>>, <<"U+0225", <<"U+0224">>>>,
    <<"U+0227", <<"U+0226">>>>, <<"U+0229", <<"U+0228">>>>,
    <<"U+022B", <<"U+022A">>>>, <<"U+022D", <<"U+022C">>>>,
    <<"U+022F", <<"U+022E">>>>, <<"U+0231", <<"U+0230">>>>,
    <<"U+0233", <<"U+0232">>>>, <<"U+023C", <<"U+023B">>>>,
    <<"U+023F", <<"U+2C7E">>>>, <<"U+0240", <<"U+2C7F">>>>,
    <<"U+0242", <<"U+0241">>>>, <<"U+0247", <<"U+0246">>>>,
    <<"U+0249", <<"U+0248">>>>, <<"U+024B", <<"U+024A">>>>,
    <<"U+024D", <<"U+024C">>>>, <<"U+024F", <<"U+024E">>>>,
    <<"U+0250", <<"U+2C6F">>>>, <<"U+0251", <<"U+2C6D">>>>,
    <<"U+0252", <<"U+2C70">>>>, <<"U+0253", <<"U+0181">>>>,
    <<"U+0254", <<"U+0186">>>>, <<"U+0256", <<"U+0189">>>>,
    <<"U+0257", <<"U+018A">>>>, <<"U+0259", <<"U+018F">>>>,
    <<"U+025B", <<"U+0190">>>>, <<"U+025C", <<"U+A7AB">>>>,
    <<"U+0260", <<"U+0193">>>>, <<"U+0261", <<"U+A7AC">>>>,
    <<"U+0263", <<"U+0194">>>>, <<"U+0264", <<"U+A7CB">>>>,
    <<"U+0265", <<"U+A78D">>>>, <<"U+0266", <<"U+A7AA">>>>,
    <<"U+0268", <<"U+0197">>>>, <<"U+0269", <<"U+0196">>>>,
    <<"U+026A", <<"U+A7AE">>>>, <<"U+026B", <<"U+2C62">>>>,
    <<"U+026C", <<"U+A7AD">>>>, <<"U+026F", <<"U+019C">>>>,
    <<"U+0271", <<"U+2C6E">>>>, <<"U+0272", <<"U+019D">>>>,
    <<"U+0275", <<"U+019F">>>>, <<"U+027D", <<"U+2C64">>>>,
    <<"U+0280", <<"U+01A6">>>>, <<"U+0282", <<"U+A7C5">>>>,
    <<"U+0283", <<"U+01A9">>>>, <<"U+0287", <<"U+A7B1">>>>,
    <<"U+0288", <<"U+01AE">>>>, <<"U+0289", <<"U+0244">>>>,
    <<"U+028A", <<"U+01B1">>>>, <<"U+028B", <<"U+01B2">>>>,
    <<"U+028C", <<"U+0245">>>>, <<"U+0292", <<"U+01B7">>>>,
    <<"U+029D", <<"U+A7B2">>>>, <<"U+029E", <<"U+A7B0">>>>,
    <<"U+0345", <<"U+0399">>>>, <<"U+0371", <<"U+0370">>>>,
    <<"U+0373", <<"U+0372">>>>, <<"U+0377", <<"U+0376">>>>,
    <<"U+037B", <<"U+03FD">>>>, <<"U+037C", <<"U+03FE">>>>,
    <<"U+037D", <<"U+03FF">>>>,
    <<"U+0390", <<"U+0399", "U+0308", "U+0301">>>>,
    <<"U+03AC", <<"U+0386">>>>, <<"U+03AD", <<"U+0388">>>>,
    <<"U+03AE", <<"U+0389">>>>, <<"U+03AF", <<"U+038A">>>>,
    <<"U+03B0", <<"U+03A5", "U+0308", "U+0301">>>>,
    <<"U+03B1", <<"U+0391">>>>, <<"U+03B2", <<"U+0392">>>>,
    <<"U+03B3", <<"U+0393">>>>, <<"U+03B4", <<"U+0394">>>>,
    <<"U+03B5", <<"U+0395">>>>, <<"U+03B6", <<"U+0396">>>>,
    <<"U+03B7", <<"U+0397">>>>, <<"U+03B8", <<"U+0398">>>>,
    <<"U+03B9", <<"U+0399">>>>, <<"U+03BA", <<"U+039A">>>>,
    <<"U+03BB", <<"U+039B">>>>, <<"U+03BC", <<"U+039C">>>>,
    <<"U+03BD", <<"U+039D">>>>, <<"U+03BE", <<"U+039E">>>>,
    <<"U+03BF", <<"U+039F">>>>, <<"U+03C0", <<"U+03A0">>>>,
    <<"U+03C1", <<"U+03A1">>>>, <<"U+03C2", <<"U+03A3">>>>,
    <<"U+03C3", <<"U+03A3">>>>, <<"U+03C4", <<"U+03A4">>>>,
    <<"U+03C5", <<"U+03A5">>>>, <<"U+03C6", <<"U+03A6">>>>,
    <<"U+03C7", <<"U+03A7">>>>, <<"U+03C8", <<"U+03A8">>>>,
    <<"U+03C9", <<"U+03A9">>>>, <<"U+03CA", <<"U+03AA">>>>,
    <<"U+03CB", <<"U+03AB">>>>, <<"U+03CC", <<"U+038C">>>>,
    <<"U+03CD", <<"U+038E">>>>, <<"U+03CE", <<"U+038F">>>>,
    <<"U+03D0", <<"U+0392">>>>, <<"U+03D1", <<"U+0398">>>>,
    <<"U+03D5", <<"U+03A6">>>>, <<"U+03D6", <<"U+03A0">>>>,
    <<"U+03D7", <<"U+03CF">>>>, <<"U+03D9", <<"U+03D8">>>>,
    <<"U+03DB", <<"U+03DA">>>>, <<"U+03DD", <<"U+03DC">>>>,
    <<"U+03DF", <<"U+03DE">>>>, <<"U+03E1", <<"U+03E0">>>>,
    <<"U+03E3", <<"U+03E2">>>>, <<"U+03E5", <<"U+03E4">>>>,
    <<"U+03E7", <<"U+03E6">>>>, <<"U+03E9", <<"U+03E8">>>>,
    <<"U+03EB", <<"U+03EA">>>>, <<"U+03ED", <<"U+03EC">>>>,
    <<"U+03EF", <<"U+03EE">>>>, <<"U+03F0", <<"U+039A">>>>,
    <<"U+03F1", <<"U+03A1">>>>, <<"U+03F2", <<"U+03F9">>>>,
    <<"U+03F3", <<"U+037F">>>>, <<"U+03F5", <<"U+0395">>>>,
    <<"U+03F8", <<"U+03F7">>>>, <<"U+03FB", <<"U+03FA">>>>,
    <<"U+0430", <<"U+0410">>>>, <<"U+0431", <<"U+0411">>>>,
    <<"U+0432", <<"U+0412">>>>, <<"U+0433", <<"U+0413">>>>,
    <<"U+0434", <<"U+0414">>>>, <<"U+0435", <<"U+0415">>>>,
    <<"U+0436", <<"U+0416">>>>, <<"U+0437", <<"U+0417">>>>,
    <<"U+0438", <<"U+0418">>>>, <<"U+0439", <<"U+0419">>>>,
    <<"U+043A", <<"U+041A">>>>, <<"U+043B", <<"U+041B">>>>,
    <<"U+043C", <<"U+041C">>>>, <<"U+043D", <<"U+041D">>>>,
    <<"U+043E", <<"U+041E">>>>, <<"U+043F", <<"U+041F">>>>,
    <<"U+0440", <<"U+0420">>>>, <<"U+0441", <<"U+0421">>>>,
    <<"U+0442", <<"U+0422">>>>, <<"U+0443", <<"U+0423">>>>,
    <<"U+0444", <<"U+0424">>>>, <<"U+0445", <<"U+0425">>>>,
    <<"U+0446", <<"U+0426">>>>, <<"U+0447", <<"U+0427">>>>,
    <<"U+0448", <<"U+0428">>>>, <<"U+0449", <<"U+0429">>>>,
    <<"U+044A", <<"U+042A">>>>, <<"U+044B", <<"U+042B">>>>,
    <<"U+044C", <<"U+042C">>>>, <<"U+044D", <<"U+042D">>>>,
    <<"U+044E", <<"U+042E">>>>, <<"U+044F", <<"U+042F">>>>,
    <<"U+0450", <<"U+0400">>>>, <<"U+0451", <<"U+0401">>>>,
    <<"U+0452", <<"U+0402">>>>, <<"U+0453", <<"U+0403">>>>,
    <<"U+0454", <<"U+0404">>>>, <<"U+0455", <<"U+0405">>>>,
    <<"U+0456", <<"U+0406">>>>, <<"U+0457", <<"U+0407">>>>,
    <<"U+0458", <<"U+0408">>>>, <<"U+0459", <<"U+0409">>>>,
    <<"U+045A", <<"U+040A">>>>, <<"U+045B", <<"U+040B">>>>,
    <<"U+045C", <<"U+040C">>>>, <<"U+045D", <<"U+040D">>>>,
    <<"U+045E", <<"U+040E">>>>, <<"U+045F", <<"U+040F">>>>,
    <<"U+0461", <<"U+0460">>>>, <<"U+0463", <<"U+0462">>>>,
    <<"U+0465", <<"U+0464">>>>, <<"U+0467", <<"U+0466">>>>,
    <<"U+0469", <<"U+0468">>>>, <<"U+046B", <<"U+046A">>>>,
    <<"U+046D", <<"U+046C">>>>, <<"U+046F", <<"U+046E">>>>,
    <<"U+0471", <<"U+0470">>>>, <<"U+0473", <<"U+0472">>>>,
    <<"U+0475", <<"U+0474">>>>, <<"U+0477", <<"U+0476">>>>,
    <<"U+0479", <<"U+0478">>>>, <<"U+047B", <<"U+047A">>>>,
    <<"U+047D", <<"U+047C">>>>, <<"U+047F", <<"U+047E">>>>,
    <<"U+0481", <<"U+0480">>>>, <<"U+048B", <<"U+048A">>>>,
    <<"U+048D", <<"U+048C">>>>, <<"U+048F", <<"U+048E">>>>,
    <<"U+0491", <<"U+0490">>>>, <<"U+0493", <<"U+0492">>>>,
    <<"U+0495", <<"U+0494">>>>, <<"U+0497", <<"U+0496">>>>,
    <<"U+0499", <<"U+0498">>>>, <<"U+049B", <<"U+049A">>>>,
    <<"U+049D", <<"U+049C">>>>, <<"U+049F", <<"U+049E">>>>,
    <<"U+04A1", <<"U+04A0">>>>, <<"U+04A3", <<"U+04A2">>>>,
    <<"U+04A5", <<"U+04A4">>>>, <<"U+04A7", <<"U+04A6">>>>,
    <<"U+04A9", <<"U+04A8">>>>, <<"U+04AB", <<"U+04AA">>>>,
    <<"U+04AD", <<"U+04AC">>>>, <<"U+04AF", <<"U+04AE">>>>,
    <<"U+04B1", <<"U+04B0">>>>, <<"U+04B3", <<"U+04B2">>>>,
    <<"U+04B5", <<"U+04B4">>>>, <<"U+04B7", <<"U+04B6">>>>,
    <<"U+04B9", <<"U+04B8">>>>, <<"U+04BB", <<"U+04BA">>>>,
    <<"U+04BD", <<"U+04BC">>>>, <<"U+04BF", <<"U+04BE">>>>,
    <<"U+04C2", <<"U+04C1">>>>, <<"U+04C4", <<"U+04C3">>>>,
    <<"U+04C6", <<"U+04C5">>>>, <<"U+04C8", <<"U+04C7">>>>,
    <<"U+04CA", <<"U+04C9">>>>, <<"U+04CC", <<"U+04CB">>>>,
    <<"U+04CE", <<"U+04CD">>>>, <<"U+04CF", <<"U+04C0">>>>,
    <<"U+04D1", <<"U+04D0">>>>, <<"U+04D3", <<"U+04D2">>>>,
    <<"U+04D5", <<"U+04D4">>>>, <<"U+04D7", <<"U+04D6">>>>,
    <<"U+04D9", <<"U+04D8">>>>, <<"U+04DB", <<"U+04DA">>>>,
    <<"U+04DD", <<"U+04DC">>>>, <<"U+04DF", <<"U+04DE">>>>,
    <<"U+04E1", <<"U+04E0">>>>, <<"U+04E3", <<"U+04E2">>>>,
    <<"U+04E5", <<"U+04E4">>>>, <<"U+04E7", <<"U+04E6">>>>,
    <<"U+04E9", <<"U+04E8">>>>, <<"U+04EB", <<"U+04EA">>>>,
    <<"U+04ED", <<"U+04EC">>>>, <<"U+04EF", <<"U+04EE">>>>,
    <<"U+04F1", <<"U+04F0">>>>, <<"U+04F3", <<"U+04F2">>>>,
    <<"U+04F5", <<"U+04F4">>>>, <<"U+04F7", <<"U+04F6">>>>,
    <<"U+04F9", <<"U+04F8">>>>, <<"U+04FB", <<"U+04FA">>>>,
    <<"U+04FD", <<"U+04FC">>>>, <<"U+04FF", <<"U+04FE">>>>,
    <<"U+0501", <<"U+0500">>>>, <<"U+0503", <<"U+0502">>>>,
    <<"U+0505", <<"U+0504">>>>, <<"U+0507", <<"U+0506">>>>,
    <<"U+0509", <<"U+0508">>>>, <<"U+050B", <<"U+050A">>>>,
    <<"U+050D", <<"U+050C">>>>, <<"U+050F", <<"U+050E">>>>,
    <<"U+0511", <<"U+0510">>>>, <<"U+0513", <<"U+0512">>>>,
    <<"U+0515", <<"U+0514">>>>, <<"U+0517", <<"U+0516">>>>,
    <<"U+0519", <<"U+0518">>>>, <<"U+051B", <<"U+051A">>>>,
    <<"U+051D", <<"U+051C">>>>, <<"U+051F", <<"U+051E">>>>,
    <<"U+0521", <<"U+0520">>>>, <<"U+0523", <<"U+0522">>>>,
    <<"U+0525", <<"U+0524">>>>, <<"U+0527", <<"U+0526">>>>,
    <<"U+0529", <<"U+0528">>>>, <<"U+052B", <<"U+052A">>>>,
    <<"U+052D", <<"U+052C">>>>, <<"U+052F", <<"U+052E">>>>,
    <<"U+0561", <<"U+0531">>>>, <<"U+0562", <<"U+0532">>>>,
    <<"U+0563", <<"U+0533">>>>, <<"U+0564", <<"U+0534">>>>,
    <<"U+0565", <<"U+0535">>>>, <<"U+0566", <<"U+0536">>>>,
    <<"U+0567", <<"U+0537">>>>, <<"U+0568", <<"U+0538">>>>,
    <<"U+0569", <<"U+0539">>>>, <<"U+056A", <<"U+053A">>>>,
    <<"U+056B", <<"U+053B">>>>, <<"U+056C", <<"U+053C">>>>,
    <<"U+056D", <<"U+053D">>>>, <<"U+056E", <<"U+053E">>>>,
    <<"U+056F", <<"U+053F">>>>, <<"U+0570", <<"U+0540">>>>,
    <<"U+0571", <<"U+0541">>>>, <<"U+0572", <<"U+0542">>>>,
    <<"U+0573", <<"U+0543">>>>, <<"U+0574", <<"U+0544">>>>,
    <<"U+0575", <<"U+0545">>>>, <<"U+0576", <<"U+0546">>>>,
    <<"U+0577", <<"U+0547">>>>, <<"U+0578", <<"U+0548">>>>,
    <<"U+0579", <<"U+0549">>>>, <<"U+057A", <<"U+054A">>>>,
    <<"U+057B", <<"U+054B">>>>, <<"U+057C", <<"U+054C">>>>,
    <<"U+057D", <<"U+054D">>>>, <<"U+057E", <<"U+054E">>>>,
    <<"U+057F", <<"U+054F">>>>, <<"U+0580", <<"U+0550">>>>,
    <<"U+0581", <<"U+0551">>>>, <<"U+0582", <<"U+0552">>>>,
    <<"U+0583", <<"U+0553">>>>, <<"U+0584", <<"U+0554">>>>,
    <<"U+0585", <<"U+0555">>>>, <<"U+0586", <<"U+0556">>>>,
    <<"U+0587", <<"U+0535", "U+0552">>>>, <<"U+10D0", <<"U+1C90">>>>,
    <<"U+10D1", <<"U+1C91">>>>, <<"U+10D2", <<"U+1C92">>>>,
    <<"U+10D3", <<"U+1C93">>>>, <<"U+10D4", <<"U+1C94">>>>,
    <<"U+10D5", <<"U+1C95">>>>, <<"U+10D6", <<"U+1C96">>>>,
    <<"U+10D7", <<"U+1C97">>>>, <<"U+10D8", <<"U+1C98">>>>,
    <<"U+10D9", <<"U+1C99">>>>, <<"U+10DA", <<"U+1C9A">>>>,
    <<"U+10DB", <<"U+1C9B">>>>, <<"U+10DC", <<"U+1C9C">>>>,
    <<"U+10DD", <<"U+1C9D">>>>, <<"U+10DE", <<"U+1C9E">>>>,
    <<"U+10DF", <<"U+1C9F">>>>, <<"U+10E0", <<"U+1CA0">>>>,
    <<"U+10E1", <<"U+1CA1">>>>, <<"U+10E2", <<"U+1CA2">>>>,
    <<"U+10E3", <<"U+1CA3">>>>, <<"U+10E4", <<"U+1CA4">>>>,
    <<"U+10E5", <<"U+1CA5">>>>, <<"U+10E6", <<"U+1CA6">>>>,
    <<"U+10E7", <<"U+1CA7">>>>, <<"U+10E8", <<"U+1CA8">>>>,
    <<"U+10E9", <<"U+1CA9">>>>, <<"U+10EA", <<"U+1CAA">>>>,
    <<"U+10EB", <<"U+1CAB">>>>, <<"U+10EC", <<"U+1CAC">>>>,
    <<"U+10ED", <<"U+1CAD">>>>, <<"U+10EE", <<"U+1CAE">>>>,
    <<"U+10EF", <<"U+1CAF">>>>, <<"U+10F0", <<"U+1CB0">>>>,
    <<"U+10F1", <<"U+1CB1">>>>, <<"U+10F2", <<"U+1CB2">>>>,
    <<"U+10F3", <<"U+1CB3">>>>, <<"U+10F4", <<"U+1CB4">>>>,
    <<"U+10F5", <<"U+1CB5">>>>, <<"U+10F6", <<"U+1CB6">>>>,
    <<"U+10F7", <<"U+1CB7">>>>, <<"U+10F8", <<"U+1CB8">>>>,
    <<"U+10F9", <<"U+1CB9">>>>, <<"U+10FA", <<"U+1CBA">>>>,
    <<"U+10FD", <<"U+1CBD">>>>, <<"U+10FE", <<"U+1CBE">>>>,
    <<"U+10FF", <<"U+1CBF">>>>, <<"U+13F8", <<"U+13F0">>>>,
    <<"U+13F9", <<"U+13F1">>>>, <<"U+13FA", <<"U+13F2">>>>,
    <<"U+13FB", <<"U+13F3">>>>, <<"U+13FC", <<"U+13F4">>>>,
    <<"U+13FD", <<"U+13F5">>>>, <<"U+1C80", <<"U+0412">>>>,
    <<"U+1C81", <<"U+0414">>>>, <<"U+1C82", <<"U+041E">>>>,
    <<"U+1C83", <<"U+0421">>>>, <<"U+1C84", <<"U+0422">>>>,
    <<"U+1C85", <<"U+0422">>>>, <<"U+1C86", <<"U+042A">>>>,
    <<"U+1C87", <<"U+0462">>>>, <<"U+1C88", <<"U+A64A">>>>,
    <<"U+1C8A", <<"U+1C89">>>>, <<"U+1D79", <<"U+A77D">>>>,
    <<"U+1D7D", <<"U+2C63">>>>, <<"U+1D8E", <<"U+A7C6">>>>,
    <<"U+1E01", <<"U+1E00">>>>, <<"U+1E03", <<"U+1E02">>>>,
    <<"U+1E05", <<"U+1E04">>>>, <<"U+1E07", <<"U+1E06">>>>,
    <<"U+1E09", <<"U+1E08">>>>, <<"U+1E0B", <<"U+1E0A">>>>,
    <<"U+1E0D", <<"U+1E0C">>>>, <<"U+1E0F", <<"U+1E0E">>>>,
    <<"U+1E11", <<"U+1E10">>>>, <<"U+1E13", <<"U+1E12">>>>,
    <<"U+1E15", <<"U+1E14">>>>, <<"U+1E17", <<"U+1E16">>>>,
    <<"U+1E19", <<"U+1E18">>>>, <<"U+1E1B", <<"U+1E1A">>>>,
    <<"U+1E1D", <<"U+1E1C">>>>, <<"U+1E1F", <<"U+1E1E">>>>,
    <<"U+1E21", <<"U+1E20">>>>, <<"U+1E23", <<"U+1E22">>>>,
    <<"U+1E25", <<"U+1E24">>>>, <<"U+1E27", <<"U+1E26">>>>,
    <<"U+1E29", <<"U+1E28">>>>, <<"U+1E2B", <<"U+1E2A">>>>,
    <<"U+1E2D", <<"U+1E2C">>>>, <<"U+1E2F", <<"U+1E2E">>>>,
    <<"U+1E31", <<"U+1E30">>>>, <<"U+1E33", <<"U+1E32">>>>,
    <<"U+1E35", <<"U+1E34">>>>, <<"U+1E37", <<"U+1E36">>>>,
    <<"U+1E39", <<"U+1E38">>>>, <<"U+1E3B", <<"U+1E3A">>>>,
    <<"U+1E3D", <<"U+1E3C">>>>, <<"U+1E3F", <<"U+1E3E">>>>,
    <<"U+1E41", <<"U+1E40">>>>, <<"U+1E43", <<"U+1E42">>>>,
    <<"U+1E45", <<"U+1E44">>>>, <<"U+1E47", <<"U+1E46">>>>,
    <<"U+1E49", <<"U+1E48">>>>, <<"U+1E4B", <<"U+1E4A">>>>,
    <<"U+1E4D", <<"U+1E4C">>>>, <<"U+1E4F", <<"U+1E4E">>>>,
    <<"U+1E51", <<"U+1E50">>>>, <<"U+1E53", <<"U+1E52">>>>,
    <<"U+1E55", <<"U+1E54">>>>, <<"U+1E57", <<"U+1E56">>>>,
    <<"U+1E59", <<"U+1E58">>>>, <<"U+1E5B", <<"U+1E5A">>>>,
    <<"U+1E5D", <<"U+1E5C">>>>, <<"U+1E5F", <<"U+1E5E">>>>,
    <<"U+1E61", <<"U+1E60">>>>, <<"U+1E63", <<"U+1E62">>>>,
    <<"U+1E65", <<"U+1E64">>>>, <<"U+1E67", <<"U+1E66">>>>,
    <<"U+1E69", <<"U+1E68">>>>, <<"U+1E6B", <<"U+1E6A">>>>,
    <<"U+1E6D", <<"U+1E6C">>>>, <<"U+1E6F", <<"U+1E6E">>>>,
    <<"U+1E71", <<"U+1E70">>>>, <<"U+1E73", <<"U+1E72">>>>,
    <<"U+1E75", <<"U+1E74">>>>, <<"U+1E77", <<"U+1E76">>>>,
    <<"U+1E79", <<"U+1E78">>>>, <<"U+1E7B", <<"U+1E7A">>>>,
    <<"U+1E7D", <<"U+1E7C">>>>, <<"U+1E7F", <<"U+1E7E">>>>,
    <<"U+1E81", <<"U+1E80">>>>, <<"U+1E83", <<"U+1E82">>>>,
    <<"U+1E85", <<"U+1E84">>>>, <<"U+1E87", <<"U+1E86">>>>,
    <<"U+1E89", <<"U+1E88">>>>, <<"U+1E8B", <<"U+1E8A">>>>,
    <<"U+1E8D", <<"U+1E8C">>>>, <<"U+1E8F", <<"U+1E8E">>>>,
    <<"U+1E91", <<"U+1E90">>>>, <<"U+1E93", <<"U+1E92">>>>,
    <<"U+1E95", <<"U+1E94">>>>, <<"U+1E96", <<"H", "U+0331">>>>,
    <<"U+1E97", <<"T", "U+0308">>>>, <<"U+1E98", <<"W", "U+030A">>>>,
    <<"U+1E99", <<"Y", "U+030A">>>>, <<"U+1E9A", <<"A", "U+02BE">>>>,
    <<"U+1E9B", <<"U+1E60">>>>, <<"U+1EA1", <<"U+1EA0">>>>,
    <<"U+1EA3", <<"U+1EA2">>>>, <<"U+1EA5", <<"U+1EA4">>>>,
    <<"U+1EA7", <<"U+1EA6">>>>, <<"U+1EA9", <<"U+1EA8">>>>,
    <<"U+1EAB", <<"U+1EAA">>>>, <<"U+1EAD", <<"U+1EAC">>>>,
    <<"U+1EAF", <<"U+1EAE">>>>, <<"U+1EB1", <<"U+1EB0">>>>,
    <<"U+1EB3", <<"U+1EB2">>>>, <<"U+1EB5", <<"U+1EB4">>>>,
    <<"U+1EB7", <<"U+1EB6">>>>, <<"U+1EB9", <<"U+1EB8">>>>,
    <<"U+1EBB", <<"U+1EBA">>>>, <<"U+1EBD", <<"U+1EBC">>>>,
    <<"U+1EBF", <<"U+1EBE">>>>, <<"U+1EC1", <<"U+1EC0">>>>,
    <<"U+1EC3", <<"U+1EC2">>>>, <<"U+1EC5", <<"U+1EC4">>>>,
    <<"U+1EC7", <<"U+1EC6">>>>, <<"U+1EC9", <<"U+1EC8">>>>,
    <<"U+1ECB", <<"U+1ECA">>>>, <<"U+1ECD", <<"U+1ECC">>>>,
    <<"U+1ECF", <<"U+1ECE">>>>, <<"U+1ED1", <<"U+1ED0">>>>,
    <<"U+1ED3", <<"U+1ED2">>>>, <<"U+1ED5", <<"U+1ED4">>>>,
    <<"U+1ED7", <<"U+1ED6">>>>, <<"U+1ED9", <<"U+1ED8">>>>,
    <<"U+1EDB", <<"U+1EDA">>>>, <<"U+1EDD", <<"U+1EDC">>>>,
    <<"U+1EDF", <<"U+1EDE">>>>, <<"U+1EE1", <<"U+1EE0">>>>,
    <<"U+1EE3", <<"U+1EE2">>>>, <<"U+1EE5", <<"U+1EE4">>>>,
    <<"U+1EE7", <<"U+1EE6">>>>, <<"U+1EE9", <<"U+1EE8">>>>,
    <<"U+1EEB", <<"U+1EEA">>>>, <<"U+1EED", <<"U+1EEC">>>>,
    <<"U+1EEF", <<"U+1EEE">>>>, <<"U+1EF1", <<"U+1EF0">>>>,
    <<"U+1EF3", <<"U+1EF2">>>>, <<"U+1EF5", <<"U+1EF4">>>>,
    <<"U+1EF7", <<"U+1EF6">>>>, <<"U+1EF9", <<"U+1EF8">>>>,
    <<"U+1EFB", <<"U+1EFA">>>>, <<"U+1EFD", <<"U+1EFC">>>>,
    <<"U+1EFF", <<"U+1EFE">>>>, <<"U+1F00", <<"U+1F08">>>>,
    <<"U+1F01", <<"U+1F09">>>>, <<"U+1F02", <<"U+1F0A">>>>,
    <<"U+1F03", <<"U+1F0B">>>>, <<"U+1F04", <<"U+1F0C">>>>,
    <<"U+1F05", <<"U+1F0D">>>>, <<"U+1F06", <<"U+1F0E">>>>,
    <<"U+1F07", <<"U+1F0F">>>>, <<"U+1F10", <<"U+1F18">>>>,
    <<"U+1F11", <<"U+1F19">>>>, <<"U+1F12", <<"U+1F1A">>>>,
    <<"U+1F13", <<"U+1F1B">>>>, <<"U+1F14", <<"U+1F1C">>>>,
    <<"U+1F15", <<"U+1F1D">>>>, <<"U+1F20", <<"U+1F28">>>>,
    <<"U+1F21", <<"U+1F29">>>>, <<"U+1F22", <<"U+1F2A">>>>,
    <<"U+1F23", <<"U+1F2B">>>>, <<"U+1F24", <<"U+1F2C">>>>,
    <<"U+1F25", <<"U+1F2D">>>>, <<"U+1F26", <<"U+1F2E">>>>,
    <<"U+1F27", <<"U+1F2F">>>>, <<"U+1F30", <<"U+1F38">>>>,
    <<"U+1F31", <<"U+1F39">>>>, <<"U+1F32", <<"U+1F3A">>>>,
    <<"U+1F33", <<"U+1F3B">>>>, <<"U+1F34", <<"U+1F3C">>>>,
    <<"U+1F35", <<"U+1F3D">>>>, <<"U+1F36", <<"U+1F3E">>>>,
    <<"U+1F37", <<"U+1F3F">>>>, <<"U+1F40", <<"U+1F48">>>>,
    <<"U+1F41", <<"U+1F49">>>>, <<"U+1F42", <<"U+1F4A">>>>,
    <<"U+1F43", <<"U+1F4B">>>>, <<"U+1F44", <<"U+1F4C">>>>,
    <<"U+1F45", <<"U+1F4D">>>>, <<"U+1F50", <<"U+03A5", "U+0313">>>>,
    <<"U+1F51", <<"U+1F59">>>>,
    <<"U+1F52", <<"U+03A5", "U+0313", "U+0300">>>>,
    <<"U+1F53", <<"U+1F5B">>>>,
    <<"U+1F54", <<"U+03A5", "U+0313", "U+0301">>>>,
    <<"U+1F55", <<"U+1F5D">>>>,
    <<"U+1F56", <<"U+03A5", "U+0313", "U+0342">>>>,
    <<"U+1F57", <<"U+1F5F">>>>, <<"U+1F60", <<"U+1F68">>>>,
    <<"U+1F61", <<"U+1F69">>>>, <<"U+1F62", <<"U+1F6A">>>>,
    <<"U+1F63", <<"U+1F6B">>>>, <<"U+1F64", <<"U+1F6C">>>>,
    <<"U+1F65", <<"U+1F6D">>>>, <<"U+1F66", <<"U+1F6E">>>>,
    <<"U+1F67", <<"U+1F6F">>>>, <<"U+1F70", <<"U+1FBA">>>>,
    <<"U+1F71", <<"U+1FBB">>>>, <<"U+1F72", <<"U+1FC8">>>>,
    <<"U+1F73", <<"U+1FC9">>>>, <<"U+1F74", <<"U+1FCA">>>>,
    <<"U+1F75", <<"U+1FCB">>>>, <<"U+1F76", <<"U+1FDA">>>>,
    <<"U+1F77", <<"U+1FDB">>>>, <<"U+1F78", <<"U+1FF8">>>>,
    <<"U+1F79", <<"U+1FF9">>>>, <<"U+1F7A", <<"U+1FEA">>>>,
    <<"U+1F7B", <<"U+1FEB">>>>, <<"U+1F7C", <<"U+1FFA">>>>,
    <<"U+1F7D", <<"U+1FFB">>>>, <<"U+1F80", <<"U+1F08", "U+0399">>>>,
    <<"U+1F81", <<"U+1F09", "U+0399">>>>,
    <<"U+1F82", <<"U+1F0A", "U+0399">>>>,
    <<"U+1F83", <<"U+1F0B", "U+0399">>>>,
    <<"U+1F84", <<"U+1F0C", "U+0399">>>>,
    <<"U+1F85", <<"U+1F0D", "U+0399">>>>,
    <<"U+1F86", <<"U+1F0E", "U+0399">>>>,
    <<"U+1F87", <<"U+1F0F", "U+0399">>>>,
    <<"U+1F88", <<"U+1F08", "U+0399">>>>,
    <<"U+1F89", <<"U+1F09", "U+0399">>>>,
    <<"U+1F8A", <<"U+1F0A", "U+0399">>>>,
    <<"U+1F8B", <<"U+1F0B", "U+0399">>>>,
    <<"U+1F8C", <<"U+1F0C", "U+0399">>>>,
    <<"U+1F8D", <<"U+1F0D", "U+0399">>>>,
    <<"U+1F8E", <<"U+1F0E", "U+0399">>>>,
    <<"U+1F8F", <<"U+1F0F", "U+0399">>>>,
    <<"U+1F90", <<"U+1F28", "U+0399">>>>,
    <<"U+1F91", <<"U+1F29", "U+0399">>>>,
    <<"U+1F92", <<"U+1F2A", "U+0399">>>>,
    <<"U+1F93", <<"U+1F2B", "U+0399">>>>,
    <<"U+1F94", <<"U+1F2C", "U+0399">>>>,
    <<"U+1F95", <<"U+1F2D", "U+0399">>>>,
    <<"U+1F96", <<"U+1F2E", "U+0399">>>>,
    <<"U+1F97", <<"U+1F2F", "U+0399">>>>,
    <<"U+1F98", <<"U+1F28", "U+0399">>>>,
    <<"U+1F99", <<"U+1F29", "U+0399">>>>,
    <<"U+1F9A", <<"U+1F2A", "U+0399">>>>,
    <<"U+1F9B", <<"U+1F2B", "U+0399">>>>,
    <<"U+1F9C", <<"U+1F2C", "U+0399">>>>,
    <<"U+1F9D", <<"U+1F2D", "U+0399">>>>,
    <<"U+1F9E", <<"U+1F2E", "U+0399">>>>,
    <<"U+1F9F", <<"U+1F2F", "U+0399">>>>,
    <<"U+1FA0", <<"U+1F68", "U+0399">>>>,
    <<"U+1FA1", <<"U+1F69", "U+0399">>>>,
    <<"U+1FA2", <<"U+1F6A", "U+0399">>>>,
    <<"U+1FA3", <<"U+1F6B", "U+0399">>>>,
    <<"U+1FA4", <<"U+1F6C", "U+0399">>>>,
    <<"U+1FA5", <<"U+1F6D", "U+0399">>>>,
    <<"U+1FA6", <<"U+1F6E", "U+0399">>>>,
    <<"U+1FA7", <<"U+1F6F", "U+0399">>>>,
    <<"U+1FA8", <<"U+1F68", "U+0399">>>>,
    <<"U+1FA9", <<"U+1F69", "U+0399">>>>,
    <<"U+1FAA", <<"U+1F6A", "U+0399">>>>,
    <<"U+1FAB", <<"U+1F6B", "U+0399">>>>,
    <<"U+1FAC", <<"U+1F6C", "U+0399">>>>,
    <<"U+1FAD", <<"U+1F6D", "U+0399">>>>,
    <<"U+1FAE", <<"U+1F6E", "U+0399">>>>,
    <<"U+1FAF", <<"U+1F6F", "U+0399">>>>, <<"U+1FB0", <<"U+1FB8">>>>,
    <<"U+1FB1", <<"U+1FB9">>>>, <<"U+1FB2", <<"U+1FBA", "U+0399">>>>,
    <<"U+1FB3", <<"U+0391", "U+0399">>>>,
    <<"U+1FB4", <<"U+0386", "U+0399">>>>,
    <<"U+1FB6", <<"U+0391", "U+0342">>>>,
    <<"U+1FB7", <<"U+0391", "U+0342", "U+0399">>>>,
    <<"U+1FBC", <<"U+0391", "U+0399">>>>, <<"U+1FBE", <<"U+0399">>>>,
    <<"U+1FC2", <<"U+1FCA", "U+0399">>>>,
    <<"U+1FC3", <<"U+0397", "U+0399">>>>,
    <<"U+1FC4", <<"U+0389", "U+0399">>>>,
    <<"U+1FC6", <<"U+0397", "U+0342">>>>,
    <<"U+1FC7", <<"U+0397", "U+0342", "U+0399">>>>,
    <<"U+1FCC", <<"U+0397", "U+0399">>>>, <<"U+1FD0", <<"U+1FD8">>>>,
    <<"U+1FD1", <<"U+1FD9">>>>,
    <<"U+1FD2", <<"U+0399", "U+0308", "U+0300">>>>,
    <<"U+1FD3", <<"U+0399", "U+0308", "U+0301">>>>,
    <<"U+1FD6", <<"U+0399", "U+0342">>>>,
    <<"U+1FD7", <<"U+0399", "U+0308", "U+0342">>>>,
    <<"U+1FE0", <<"U+1FE8">>>>, <<"U+1FE1", <<"U+1FE9">>>>,
    <<"U+1FE2", <<"U+03A5", "U+0308", "U+0300">>>>,
    <<"U+1FE3", <<"U+03A5", "U+0308", "U+0301">>>>,
    <<"U+1FE4", <<"U+03A1", "U+0313">>>>, <<"U+1FE5", <<"U+1FEC">>>>,
    <<"U+1FE6", <<"U+03A5", "U+0342">>>>,
    <<"U+1FE7", <<"U+03A5", "U+0308", "U+0342">>>>,
    <<"U+1FF2", <<"U+1FFA", "U+0399">>>>,
    <<"U+1FF3", <<"U+03A9", "U+0399">>>>,
    <<"U+1FF4", <<"U+038F", "U+0399">>>>,
    <<"U+1FF6", <<"U+03A9", "U+0342">>>>,
    <<"U+1FF7", <<"U+03A9", "U+0342", "U+0399">>>>,
    <<"U+1FFC", <<"U+03A9", "U+0399">>>>, <<"U+214E", <<"U+2132">>>>,
    <<"U+2170", <<"U+2160">>>>, <<"U+2171", <<"U+2161">>>>,
    <<"U+2172", <<"U+2162">>>>, <<"U+2173", <<"U+2163">>>>,
    <<"U+2174", <<"U+2164">>>>, <<"U+2175", <<"U+2165">>>>,
    <<"U+2176", <<"U+2166">>>>, <<"U+2177", <<"U+2167">>>>,
    <<"U+2178", <<"U+2168">>>>, <<"U+2179", <<"U+2169">>>>,
    <<"U+217A", <<"U+216A">>>>, <<"U+217B", <<"U+216B">>>>,
    <<"U+217C", <<"U+216C">>>>, <<"U+217D", <<"U+216D">>>>,
    <<"U+217E", <<"U+216E">>>>, <<"U+217F", <<"U+216F">>>>,
    <<"U+2184", <<"U+2183">>>>, <<"U+24D0", <<"U+24B6">>>>,
    <<"U+24D1", <<"U+24B7">>>>, <<"U+24D2", <<"U+24B8">>>>,
    <<"U+24D3", <<"U+24B9">>>>, <<"U+24D4", <<"U+24BA">>>>,
    <<"U+24D5", <<"U+24BB">>>>, <<"U+24D6", <<"U+24BC">>>>,
    <<"U+24D7", <<"U+24BD">>>>, <<"U+24D8", <<"U+24BE">>>>,
    <<"U+24D9", <<"U+24BF">>>>, <<"U+24DA", <<"U+24C0">>>>,
    <<"U+24DB", <<"U+24C1">>>>, <<"U+24DC", <<"U+24C2">>>>,
    <<"U+24DD", <<"U+24C3">>>>, <<"U+24DE", <<"U+24C4">>>>,
    <<"U+24DF", <<"U+24C5">>>>, <<"U+24E0", <<"U+24C6">>>>,
    <<"U+24E1", <<"U+24C7">>>>, <<"U+24E2", <<"U+24C8">>>>,
    <<"U+24E3", <<"U+24C9">>>>, <<"U+24E4", <<"U+24CA">>>>,
    <<"U+24E5", <<"U+24CB">>>>, <<"U+24E6", <<"U+24CC">>>>,
    <<"U+24E7", <<"U+24CD">>>>, <<"U+24E8", <<"U+24CE">>>>,
    <<"U+24E9", <<"U+24CF">>>>, <<"U+2C30", <<"U+2C00">>>>,
    <<"U+2C31", <<"U+2C01">>>>, <<"U+2C32", <<"U+2C02">>>>,
    <<"U+2C33", <<"U+2C03">>>>, <<"U+2C34", <<"U+2C04">>>>,
    <<"U+2C35", <<"U+2C05">>>>, <<"U+2C36", <<"U+2C06">>>>,
    <<"U+2C37", <<"U+2C07">>>>, <<"U+2C38", <<"U+2C08">>>>,
    <<"U+2C39", <<"U+2C09">>>>, <<"U+2C3A", <<"U+2C0A">>>>,
    <<"U+2C3B", <<"U+2C0B">>>>, <<"U+2C3C", <<"U+2C0C">>>>,
    <<"U+2C3D", <<"U+2C0D">>>>, <<"U+2C3E", <<"U+2C0E">>>>,
    <<"U+2C3F", <<"U+2C0F">>>>, <<"U+2C40", <<"U+2C10">>>>,
    <<"U+2C41", <<"U+2C11">>>>, <<"U+2C42", <<"U+2C12">>>>,
    <<"U+2C43", <<"U+2C13">>>>, <<"U+2C44", <<"U+2C14">>>>,
    <<"U+2C45", <<"U+2C15">>>>, <<"U+2C46", <<"U+2C16">>>>,
    <<"U+2C47", <<"U+2C17">>>>, <<"U+2C48", <<"U+2C18">>>>,
    <<"U+2C49", <<"U+2C19">>>>, <<"U+2C4A", <<"U+2C1A">>>>,
    <<"U+2C4B", <<"U+2C1B">>>>, <<"U+2C4C", <<"U+2C1C">>>>,
    <<"U+2C4D", <<"U+2C1D">>>>, <<"U+2C4E", <<"U+2C1E">>>>,
    <<"U+2C4F", <<"U+2C1F">>>>, <<"U+2C50", <<"U+2C20">>>>,
    <<"U+2C51", <<"U+2C21">>>>, <<"U+2C52", <<"U+2C22">>>>,
    <<"U+2C53", <<"U+2C23">>>>, <<"U+2C54", <<"U+2C24">>>>,
    <<"U+2C55", <<"U+2C25">>>>, <<"U+2C56", <<"U+2C26">>>>,
    <<"U+2C57", <<"U+2C27">>>>, <<"U+2C58", <<"U+2C28">>>>,
    <<"U+2C59", <<"U+2C29">>>>, <<"U+2C5A", <<"U+2C2A">>>>,
    <<"U+2C5B", <<"U+2C2B">>>>, <<"U+2C5C", <<"U+2C2C">>>>,
    <<"U+2C5D", <<"U+2C2D">>>>, <<"U+2C5E", <<"U+2C2E">>>>,
    <<"U+2C5F", <<"U+2C2F">>>>, <<"U+2C61", <<"U+2C60">>>>,
    <<"U+2C65", <<"U+023A">>>>, <<"U+2C66", <<"U+023E">>>>,
    <<"U+2C68", <<"U+2C67">>>>, <<"U+2C6A", <<"U+2C69">>>>,
    <<"U+2C6C", <<"U+2C6B">>>>, <<"U+2C73", <<"U+2C72">>>>,
    <<"U+2C76", <<"U+2C75">>>>, <<"U+2C81", <<"U+2C80">>>>,
    <<"U+2C83", <<"U+2C82">>>>, <<"U+2C85", <<"U+2C84">>>>,
    <<"U+2C87", <<"U+2C86">>>>, <<"U+2C89", <<"U+2C88">>>>,
    <<"U+2C8B", <<"U+2C8A">>>>, <<"U+2C8D", <<"U+2C8C">>>>,
    <<"U+2C8F", <<"U+2C8E">>>>, <<"U+2C91", <<"U+2C90">>>>,
    <<"U+2C93", <<"U+2C92">>>>, <<"U+2C95", <<"U+2C94">>>>,
    <<"U+2C97", <<"U+2C96">>>>, <<"U+2C99", <<"U+2C98">>>>,
    <<"U+2C9B", <<"U+2C9A">>>>, <<"U+2C9D", <<"U+2C9C">>>>,
    <<"U+2C9F", <<"U+2C9E">>>>, <<"U+2CA1", <<"U+2CA0">>>>,
    <<"U+2CA3", <<"U+2CA2">>>>, <<"U+2CA5", <<"U+2CA4">>>>,
    <<"U+2CA7", <<"U+2CA6">>>>, <<"U+2CA9", <<"U+2CA8">>>>,
    <<"U+2CAB", <<"U+2CAA">>>>, <<"U+2CAD", <<"U+2CAC">>>>,
    <<"U+2CAF", <<"U+2CAE">>>>, <<"U+2CB1", <<"U+2CB0">>>>,
    <<"U+2CB3", <<"U+2CB2">>>>, <<"U+2CB5", <<"U+2CB4">>>>,
    <<"U+2CB7", <<"U+2CB6">>>>, <<"U+2CB9", <<"U+2CB8">>>>,
    <<"U+2CBB", <<"U+2CBA">>>>, <<"U+2CBD", <<"U+2CBC">>>>,
    <<"U+2CBF", <<"U+2CBE">>>>, <<"U+2CC1", <<"U+2CC0">>>>,
    <<"U+2CC3", <<"U+2CC2">>>>, <<"U+2CC5", <<"U+2CC4">>>>,
    <<"U+2CC7", <<"U+2CC6">>>>, <<"U+2CC9", <<"U+2CC8">>>>,
    <<"U+2CCB", <<"U+2CCA">>>>, <<"U+2CCD", <<"U+2CCC">>>>,
    <<"U+2CCF", <<"U+2CCE">>>>, <<"U+2CD1", <<"U+2CD0">>>>,
    <<"U+2CD3", <<"U+2CD2">>>>, <<"U+2CD5", <<"U+2CD4">>>>,
    <<"U+2CD7", <<"U+2CD6">>>>, <<"U+2CD9", <<"U+2CD8">>>>,
    <<"U+2CDB", <<"U+2CDA">>>>, <<"U+2CDD", <<"U+2CDC">>>>,
    <<"U+2CDF", <<"U+2CDE">>>>, <<"U+2CE1", <<"U+2CE0">>>>,
    <<"U+2CE3", <<"U+2CE2">>>>, <<"U+2CEC", <<"U+2CEB">>>>,
    <<"U+2CEE", <<"U+2CED">>>>, <<"U+2CF3", <<"U+2CF2">>>>,
    <<"U+2D00", <<"U+10A0">>>>, <<"U+2D01", <<"U+10A1">>>>,
    <<"U+2D02", <<"U+10A2">>>>, <<"U+2D03", <<"U+10A3">>>>,
    <<"U+2D04", <<"U+10A4">>>>, <<"U+2D05", <<"U+10A5">>>>,
    <<"U+2D06", <<"U+10A6">>>>, <<"U+2D07", <<"U+10A7">>>>,
    <<"U+2D08", <<"U+10A8">>>>, <<"U+2D09", <<"U+10A9">>>>,
    <<"U+2D0A", <<"U+10AA">>>>, <<"U+2D0B", <<"U+10AB">>>>,
    <<"U+2D0C", <<"U+10AC">>>>, <<"U+2D0D", <<"U+10AD">>>>,
    <<"U+2D0E", <<"U+10AE">>>>, <<"U+2D0F", <<"U+10AF">>>>,
    <<"U+2D10", <<"U+10B0">>>>, <<"U+2D11", <<"U+10B1">>>>,
    <<"U+2D12", <<"U+10B2">>>>, <<"U+2D13", <<"U+10B3">>>>,
    <<"U+2D14", <<"U+10B4">>>>, <<"U+2D15", <<"U+10B5">>>>,
    <<"U+2D16", <<"U+10B6">>>>, <<"U+2D17", <<"U+10B7">>>>,
    <<"U+2D18", <<"U+10B8">>>>, <<"U+2D19", <<"U+10B9">>>>,
    <<"U+2D1A", <<"U+10BA">>>>, <<"U+2D1B", <<"U+10BB">>>>,
    <<"U+2D1C", <<"U+10BC">>>>, <<"U+2D1D", <<"U+10BD">>>>,
    <<"U+2D1E", <<"U+10BE">>>>, <<"U+2D1F", <<"U+10BF">>>>,
    <<"U+2D20", <<"U+10C0">>>>, <<"U+2D21", <<"U+10C1">>>>,
    <<"U+2D22", <<"U+10C2">>>>, <<"U+2D23", <<"U+10C3">>>>,
    <<"U+2D24", <<"U+10C4">>>>, <<"U+2D25", <<"U+10C5">>>>,
    <<"U+2D27", <<"U+10C7">>>>, <<"U+2D2D", <<"U+10CD">>>>,
    <<"U+A641", <<"U+A640">>>>, <<"U+A643", <<"U+A642">>>>,
    <<"U+A645", <<"U+A644">>>>, <<"U+A647", <<"U+A646">>>>,
    <<"U+A649", <<"U+A648">>>>, <<"U+A64B", <<"U+A64A">>>>,
    <<"U+A64D", <<"U+A64C">>>>, <<"U+A64F", <<"U+A64E">>>>,
    <<"U+A651", <<"U+A650">>>>, <<"U+A653", <<"U+A652">>>>,
    <<"U+A655", <<"U+A654">>>>, <<"U+A657", <<"U+A656">>>>,
    <<"U+A659", <<"U+A658">>>>, <<"U+A65B", <<"U+A65A">>>>,
    <<"U+A65D", <<"U+A65C">>>>, <<"U+A65F", <<"U+A65E">>>>,
    <<"U+A661", <<"U+A660">>>>, <<"U+A663", <<"U+A662">>>>,
    <<"U+A665", <<"U+A664">>>>, <<"U+A667", <<"U+A666">>>>,
    <<"U+A669", <<"U+A668">>>>, <<"U+A66B", <<"U+A66A">>>>,
    <<"U+A66D", <<"U+A66C">>>>, <<"U+A681", <<"U+A680">>>>,
    <<"U+A683", <<"U+A682">>>>, <<"U+A685", <<"U+A684">>>>,
    <<"U+A687", <<"U+A686">>>>, <<"U+A689", <<"U+A688">>>>,
    <<"U+A68B", <<"U+A68A">>>>, <<"U+A68D", <<"U+A68C">>>>,
    <<"U+A68F", <<"U+A68E">>>>, <<"U+A691", <<"U+A690">>>>,
    <<"U+A693", <<"U+A692">>>>, <<"U+A695", <<"U+A694">>>>,
    <<"U+A697", <<"U+A696">>>>, <<"U+A699", <<"U+A698">>>>,
    <<"U+A69B", <<"U+A69A">>>>, <<"U+A723", <<"U+A722">>>>,
    <<"U+A725", <<"U+A724">>>>, <<"U+A727", <<"U+A726">>>>,
    <<"U+A729", <<"U+A728">>>>, <<"U+A72B", <<"U+A72A">>>>,
    <<"U+A72D", <<"U+A72C">>>>, <<"U+A72F", <<"U+A72E">>>>,
    <<"U+A733", <<"U+A732">>>>, <<"U+A735", <<"U+A734">>>>,
    <<"U+A737", <<"U+A736">>>>, <<"U+A739", <<"U+A738">>>>,
    <<"U+A73B", <<"U+A73A">>>>, <<"U+A73D", <<"U+A73C">>>>,
    <<"U+A73F", <<"U+A73E">>>>, <<"U+A741", <<"U+A740">>>>,
    <<"U+A743", <<"U+A742">>>>, <<"U+A745", <<"U+A744">>>>,
    <<"U+A747", <<"U+A746">>>>, <<"U+A749", <<"U+A748">>>>,
    <<"U+A74B", <<"U+A74A">>>>, <<"U+A74D", <<"U+A74C">>>>,
    <<"U+A74F", <<"U+A74E">>>>, <<"U+A751", <<"U+A750">>>>,
    <<"U+A753", <<"U+A752">>>>, <<"U+A755", <<"U+A754">>>>,
    <<"U+A757", <<"U+A756">>>>, <<"U+A759", <<"U+A758">>>>,
    <<"U+A75B", <<"U+A75A">>>>, <<"U+A75D", <<"U+A75C">>>>,
    <<"U+A75F", <<"U+A75E">>>>, <<"U+A761", <<"U+A760">>>>,
    <<"U+A763", <<"U+A762">>>>, <<"U+A765", <<"U+A764">>>>,
    <<"U+A767", <<"U+A766">>>>, <<"U+A769", <<"U+A768">>>>,
    <<"U+A76B", <<"U+A76A">>>>, <<"U+A76D", <<"U+A76C">>>>,
    <<"U+A76F", <<"U+A76E">>>>, <<"U+A77A", <<"U+A779">>>>,
    <<"U+A77C", <<"U+A77B">>>>, <<"U+A77F", <<"U+A77E">>>>,
    <<"U+A781", <<"U+A780">>>>, <<"U+A783", <<"U+A782">>>>,
    <<"U+A785", <<"U+A784">>>>, <<"U+A787", <<"U+A786">>>>,
    <<"U+A78C", <<"U+A78B">>>>, <<"U+A791", <<"U+A790">>>>,
    <<"U+A793", <<"U+A792">>>>, <<"U+A794", <<"U+A7C4">>>>,
    <<"U+A797", <<"U+A796">>>>, <<"U+A799", <<"U+A798">>>>,
    <<"U+A79B", <<"U+A79A">>>>, <<"U+A79D", <<"U+A79C">>>>,
    <<"U+A79F", <<"U+A79E">>>>, <<"U+A7A1", <<"U+A7A0">>>>,
    <<"U+A7A3", <<"U+A7A2">>>>, <<"U+A7A5", <<"U+A7A4">>>>,
    <<"U+A7A7", <<"U+A7A6">>>>, <<"U+A7A9", <<"U+A7A8">>>>,
    <<"U+A7B5", <<"U+A7B4">>>>, <<"U+A7B7", <<"U+A7B6">>>>,
    <<"U+A7B9", <<"U+A7B8">>>>, <<"U+A7BB", <<"U+A7BA">>>>,
    <<"U+A7BD", <<"U+A7BC">>>>, <<"U+A7BF", <<"U+A7BE">>>>,
    <<"U+A7C1", <<"U+A7C0">>>>, <<"U+A7C3", <<"U+A7C2">>>>,
    <<"U+A7C8", <<"U+A7C7">>>>, <<"U+A7CA", <<"U+A7C9">>>>,
    <<"U+A7CD", <<"U+A7CC">>>>, <<"U+A7CF", <<"U+A7CE">>>>,
    <<"U+A7D1", <<"U+A7D0">>>>, <<"U+A7D3", <<"U+A7D2">>>>,
    <<"U+A7D5", <<"U+A7D4">>>>, <<"U+A7D7", <<"U+A7D6">>>>,
    <<"U+A7D9", <<"U+A7D8">>>>, <<"U+A7DB", <<"U+A7DA">>>>,
    <<"U+A7F6", <<"U+A7F5">>>>, <<"U+AB53", <<"U+A7B3">>>>,
    <<"U+AB70", <<"U+13A0">>>>, <<"U+AB71", <<"U+13A1">>>>,
    <<"U+AB72", <<"U+13A2">>>>, <<"U+AB73", <<"U+13A3">>>>,
    <<"U+AB74", <<"U+13A4">>>>, <<"U+AB75", <<"U+13A5">>>>,
    <<"U+AB76", <<"U+13A6">>>>, <<"U+AB77", <<"U+13A7">>>>,
    <<"U+AB78", <<"U+13A8">>>>, <<"U+AB79", <<"U+13A9">>>>,
    <<"U+AB7A", <<"U+13AA">>>>, <<"U+AB7B", <<"U+13AB">>>>,
    <<"U+AB7C", <<"U+13AC">>>>, <<"U+AB7D", <<"U+13AD">>>>,
    <<"U+AB7E", <<"U+13AE">>>>, <<"U+AB7F", <<"U+13AF">>>>,
    <<"U+AB80", <<"U+13B0">>>>, <<"U+AB81", <<"U+13B1">>>>,
    <<"U+AB82", <<"U+13B2">>>>, <<"U+AB83", <<"U+13B3">>>>,
    <<"U+AB84", <<"U+13B4">>>>, <<"U+AB85", <<"U+13B5">>>>,
    <<"U+AB86", <<"U+13B6">>>>, <<"U+AB87", <<"U+13B7">>>>,
    <<"U+AB88", <<"U+13B8">>>>, <<"U+AB89", <<"U+13B9">>>>,
    <<"U+AB8A", <<"U+13BA">>>>, <<"U+AB8B", <<"U+13BB">>>>,
    <<"U+AB8C", <<"U+13BC">>>>, <<"U+AB8D", <<"U+13BD">>>>,
    <<"U+AB8E", <<"U+13BE">>>>, <<"U+AB8F", <<"U+13BF">>>>,
    <<"U+AB90", <<"U+13C0">>>>, <<"U+AB91", <<"U+13C1">>>>,
    <<"U+AB92", <<"U+13C2">>>>, <<"U+AB93", <<"U+13C3">>>>,
    <<"U+AB94", <<"U+13C4">>>>, <<"U+AB95", <<"U+13C5">>>>,
    <<"U+AB96", <<"U+13C6">>>>, <<"U+AB97", <<"U+13C7">>>>,
    <<"U+AB98", <<"U+13C8">>>>, <<"U+AB99", <<"U+13C9">>>>,
    <<"U+AB9A", <<"U+13CA">>>>, <<"U+AB9B", <<"U+13CB">>>>,
    <<"U+AB9C", <<"U+13CC">>>>, <<"U+AB9D", <<"U+13CD">>>>,
    <<"U+AB9E", <<"U+13CE">>>>, <<"U+AB9F", <<"U+13CF">>>>,
    <<"U+ABA0", <<"U+13D0">>>>, <<"U+ABA1", <<"U+13D1">>>>,
    <<"U+ABA2", <<"U+13D2">>>>, <<"U+ABA3", <<"U+13D3">>>>,
    <<"U+ABA4", <<"U+13D4">>>>, <<"U+ABA5", <<"U+13D5">>>>,
    <<"U+ABA6", <<"U+13D6">>>>, <<"U+ABA7", <<"U+13D7">>>>,
    <<"U+ABA8", <<"U+13D8">>>>, <<"U+ABA9", <<"U+13D9">>>>,
    <<"U+ABAA", <<"U+13DA">>>>, <<"U+ABAB", <<"U+13DB">>>>,
    <<"U+ABAC", <<"U+13DC">>>>, <<"U+ABAD", <<"U+13DD">>>>,
    <<"U+ABAE", <<"U+13DE">>>>, <<"U+ABAF", <<"U+13DF">>>>,
    <<"U+ABB0", <<"U+13E0">>>>, <<"U+ABB1", <<"U+13E1">>>>,
    <<"U+ABB2", <<"U+13E2">>>>, <<"U+ABB3", <<"U+13E3">>>>,
    <<"U+ABB4", <<"U+13E4">>>>, <<"U+ABB5", <<"U+13E5">>>>,
    <<"U+ABB6", <<"U+13E6">>>>, <<"U+ABB7", <<"U+13E7">>>>,
    <<"U+ABB8", <<"U+13E8">>>>, <<"U+ABB9", <<"U+13E9">>>>,
    <<"U+ABBA", <<"U+13EA">>>>, <<"U+ABBB", <<"U+13EB">>>>,
    <<"U+ABBC", <<"U+13EC">>>>, <<"U+ABBD", <<"U+13ED">>>>,
    <<"U+ABBE", <<"U+13EE">>>>, <<"U+ABBF", <<"U+13EF">>>>,
    <<"U+FB00", <<"F", "F">>>>, <<"U+FB01", <<"F", "I">>>>,
    <<"U+FB02", <<"F", "L">>>>, <<"U+FB03", <<"F", "F", "I">>>>,
    <<"U+FB04", <<"F", "F", "L">>>>, <<"U+FB05", <<"S", "T">>>>,
    <<"U+FB06", <<"S", "T">>>>, <<"U+FB13", <<"U+0544", "U+0546">>>>,
    <<"U+FB14", <<"U+0544", "U+0535">>>>,
    <<"U+FB15", <<"U+0544", "U+053B">>>>,
    <<"U+FB16", <<"U+054E", "U+0546">>>>,
    <<"U+FB17", <<"U+0544", "U+053D">>>>, <<"U+FF41", <<"U+FF21">>>>,
    <<"U+FF42", <<"U+FF22">>>>, <<"U+FF43", <<"U+FF23">>>>,
    <<"U+FF44", <<"U+FF24">>>>, <<"U+FF45", <<"U+FF25">>>>,
    <<"U+FF46", <<"U+FF26">>>>, <<"U+FF47", <<"U+FF27">>>>,
    <<"U+FF48", <<"U+FF28">>>>, <<"U+FF49", <<"U+FF29">>>>,
    <<"U+FF4A", <<"U+FF2A">>>>, <<"U+FF4B", <<"U+FF2B">>>>,
    <<"U+FF4C", <<"U+FF2C">>>>, <<"U+FF4D", <<"U+FF2D">>>>,
    <<"U+FF4E", <<"U+FF2E">>>>, <<"U+FF4F", <<"U+FF2F">>>>,
    <<"U+FF50", <<"U+FF30">>>>, <<"U+FF51", <<"U+FF31">>>>,
    <<"U+FF52", <<"U+FF32">>>>, <<"U+FF53", <<"U+FF33">>>>,
    <<"U+FF54", <<"U+FF34">>>>, <<"U+FF55", <<"U+FF35">>>>,
    <<"U+FF56", <<"U+FF36">>>>, <<"U+FF57", <<"U+FF37">>>>,
    <<"U+FF58", <<"U+FF38">>>>, <<"U+FF59", <<"U+FF39">>>>,
    <<"U+FF5A", <<"U+FF3A">>>>
    >>

LowerPairs ==
    <<
   <<"A", <<"a">>>>, <<"B", <<"b">>>>, <<"C", <<"c">>>>, <<"D", <<"d">>>>,
    <<"E", <<"e">>>>, <<"F", <<"f">>>>, <<"G", <<"g">>>>, <<"H", <<"h">>>>,
    <<"I", <<"i">>>>, <<"J", <<"j">>>>, <<"K", <<"k">>>>, <<"L", <<"l">>>>,
    <<"M", <<"m">>>>, <<"N", <<"n">>>>, <<"O", <<"o">>>>, <<"P", <<"p">>>>,
    <<"Q", <<"q">>>>, <<"R", <<"r">>>>, <<"S", <<"s">>>>, <<"T", <<"t">>>>,
    <<"U", <<"u">>>>, <<"V", <<"v">>>>, <<"W", <<"w">>>>, <<"X", <<"x">>>>,
    <<"Y", <<"y">>>>, <<"Z", <<"z">>>>, <<"U+00C0", <<"U+00E0">>>>,
    <<"U+00C1", <<"U+00E1">>>>, <<"U+00C2", <<"U+00E2">>>>,
    <<"U+00C3", <<"U+00E3">>>>, <<"U+00C4", <<"U+00E4">>>>,
    <<"U+00C5", <<"U+00E5">>>>, <<"U+00C6", <<"U+00E6">>>>,
    <<"U+00C7", <<"U+00E7">>>>, <<"U+00C8", <<"U+00E8">>>>,
    <<"U+00C9", <<"U+00E9">>>>, <<"U+00CA", <<"U+00EA">>>>,
    <<"U+00CB", <<"U+00EB">>>>, <<"U+00CC", <<"U+00EC">>>>,
    <<"U+00CD", <<"U+00ED">>>>, <<"U+00CE", <<"U+00EE">>>>,
    <<"U+00CF", <<"U+00EF">>>>, <<"U+00D0", <<"U+00F0">>>>,
    <<"U+00D1", <<"U+00F1">>>>, <<"U+00D2", <<"U+00F2">>>>,
    <<"U+00D3", <<"U+00F3">>>>, <<"U+00D4", <<"U+00F4">>>>,
    <<"U+00D5", <<"U+00F5">>>>, <<"U+00D6", <<"U+00F6">>>>,
    <<"U+00D8", <<"U+00F8">>>>, <<"U+00D9", <<"U+00F9">>>>,
    <<"U+00DA", <<"U+00FA">>>>, <<"U+00DB", <<"U+00FB">>>>,
    <<"U+00DC", <<"U+00FC">>>>, <<"U+00DD", <<"U+00FD">>>>,
    <<"U+00DE", <<"U+00FE">>>>, <<"U+0100", <<"U+0101">>>>,
    <<"U+0102", <<"U+0103">>>>, <<"U+0104", <<"U+0105">>>>,
    <<"U+0106", <<"U+0107">>>>, <<"U+0108", <<"U+0109">>>>,
    <<"U+010A", <<"U+010B">>>>, <<"U+010C", <<"U+010D">>>>,
    <<"U+010E", <<"U+010F">>>>, <<"U+0110", <<"U+0111">>>>,
    <<"U+0112", <<"U+0113">>>>, <<"U+0114", <<"U+0115">>>>,
    <<"U+0116", <<"U+0117">>>>, <<"U+0118", <<"U+0119">>>>,
    <<"U+011A", <<"U+011B">>>>, <<"U+011C", <<"U+011D">>>>,
    <<"U+011E", <<"U+011F">>>>, <<"U+0120", <<"U+0121">>>>,
    <<"U+0122", <<"U+0123">>>>, <<"U+0124", <<"U+0125">>>>,
    <<"U+0126", <<"U+0127">>>>, <<"U+0128", <<"U+0129">>>>,
    <<"U+012A", <<"U+012B">>>>, <<"U+012C", <<"U+012D">>>>,
    <<"U+012E", <<"U+012F">>>>, <<"U+0130", <<"i", "U+0307">>>>,
    <<"U+0132", <<"U+0133">>>>, <<"U+0134", <<"U+0135">>>>,
    <<"U+0136", <<"U+0137">>>>, <<"U+0139", <<"U+013A">>>>,
    <<"U+013B", <<"U+013C">>>>, <<"U+013D", <<"U+013E">>>>,
    <<"U+013F", <<"U+0140">>>>, <<"U+0141", <<"U+0142">>>>,
    <<"U+0143", <<"U+0144">>>>, <<"U+0145", <<"U+0146">>>>,
    <<"U+0147", <<"U+0148">>>>, <<"U+014A", <<"U+014B">>>>,
    <<"U+014C", <<"U+014D">>>>, <<"U+014E", <<"U+014F">>>>,
    <<"U+0150", <<"U+0151">>>>, <<"U+0152", <<"U+0153">>>>,
    <<"U+0154", <<"U+0155">>>>, <<"U+0156", <<"U+0157">>>>,
    <<"U+0158", <<"U+0159">>>>, <<"U+015A", <<"U+015B">>>>,
    <<"U+015C", <<"U+015D">>>>, <<"U+015E", <<"U+015F">>>>,
    <<"U+0160", <<"U+0161">>>>, <<"U+0162", <<"U+0163">>>>,
    <<"U+0164", <<"U+0165">>>>, <<"U+0166", <<"U+0167">>>>,
    <<"U+0168", <<"U+0169">>>>, <<"U+016A", <<"U+016B">>>>,
    <<"U+016C", <<"U+016D">>>>, <<"U+016E", <<"U+016F">>>>,
    <<"U+0170", <<"U+0171">>>>, <<"U+0172", <<"U+0173">>>>,
    <<"U+0174", <<"U+0175">>>>, <<"U+0176", <<"U+0177">>>>,
    <<"U+0178", <<"U+00FF">>>>, <<"U+0179", <<"U+017A">>>>,
    <<"U+017B", <<"U+017C">>>>, <<"U+017D", <<"U+017E">>>>,
    <<"U+0181", <<"U+0253">>>>, <<"U+0182", <<"U+0183">>>>,
    <<"U+0184", <<"U+0185">>>>, <<"U+0186", <<"U+0254">>>>,
    <<"U+0187", <<"U+0188">>>>, <<"U+0189", <<"U+0256">>>>,
    <<"U+018A", <<"U+0257">>>>, <<"U+018B", <<"U+018C">>>>,
    <<"U+018E", <<"U+01DD">>>>, <<"U+018F", <<"U+0259">>>>,
    <<"U+0190", <<"U+025B">>>>, <<"U+0191", <<"U+0192">>>>,
    <<"U+0193", <<"U+0260">>>>, <<"U+0194", <<"U+0263">>>>,
    <<"U+0196", <<"U+0269">>>>, <<"U+0197", <<"U+0268">>>>,
    <<"U+0198", <<"U+0199">>>>, <<"U+019C", <<"U+026F">>>>,
    <<"U+019D", <<"U+0272">>>>, <<"U+019F", <<"U+0275">>>>,
    <<"U+01A0", <<"U+01A1">>>>, <<"U+01A2", <<"U+01A3">>>>,
    <<"U+01A4", <<"U+01A5">>>>, <<"U+01A6", <<"U+0280">>>>,
    <<"U+01A7", <<"U+01A8">>>>, <<"U+01A9", <<"U+0283">>>>,
    <<"U+01AC", <<"U+01AD">>>>, <<"U+01AE", <<"U+0288">>>>,
    <<"U+01AF", <<"U+01B0">>>>, <<"U+01B1", <<"U+028A">>>>,
    <<"U+01B2", <<"U+028B">>>>, <<"U+01B3", <<"U+01B4">>>>,
    <<"U+01B5", <<"U+01B6">>>>, <<"U+01B7", <<"U+0292">>>>,
    <<"U+01B8", <<"U+01B9">>>>, <<"U+01BC", <<"U+01BD">>>>,
    <<"U+01C4", <<"U+01C6">>>>, <<"U+01C5", <<"U+01C6">>>>,
    <<"U+01C7", <<"U+01C9">>>>, <<"U+01C8", <<"U+01C9">>>>,
    <<"U+01CA", <<"U+01CC">>>>, <<"U+01CB", <<"U+01CC">>>>,
    <<"U+01CD", <<"U+01CE">>>>, <<"U+01CF", <<"U+01D0">>>>,
    <<"U+01D1", <<"U+01D2">>>>, <<"U+01D3", <<"U+01D4">>>>,
    <<"U+01D5", <<"U+01D6">>>>, <<"U+01D7", <<"U+01D8">>>>,
    <<"U+01D9", <<"U+01DA">>>>, <<"U+01DB", <<"U+01DC">>>>,
    <<"U+01DE", <<"U+01DF">>>>, <<"U+01E0", <<"U+01E1">>>>,
    <<"U+01E2", <<"U+01E3">>>>, <<"U+01E4", <<"U+01E5">>>>,
    <<"U+01E6", <<"U+01E7">>>>, <<"U+01E8", <<"U+01E9">>>>,
    <<"U+01EA", <<"U+01EB">>>>, <<"U+01EC", <<"U+01ED">>>>,
    <<"U+01EE", <<"U+01EF">>>>, <<"U+01F1", <<"U+01F3">>>>,
    <<"U+01F2", <<"U+01F3">>>>, <<"U+01F4", <<"U+01F5">>>>,
    <<"U+01F6", <<"U+0195">>>>, <<"U+01F7", <<"U+01BF">>>>,
    <<"U+01F8", <<"U+01F9">>>>, <<"U+01FA", <<"U+01FB">>>>,
    <<"U+01FC", <<"U+01FD">>>>, <<"U+01FE", <<"U+01FF">>>>,
    <<"U+0200", <<"U+0201">>>>, <<"U+0202", <<"U+0203">>>>,
    <<"U+0204", <<"U+0205">>>>, <<"U+0206", <<"U+0207">>>>,
    <<"U+0208", <<"U+0209">>>>, <<"U+020A", <<"U+020B">>>>,
    <<"U+020C", <<"U+020D">>>>, <<"U+020E", <<"U+020F">>>>,
    <<"U+0210", <<"U+0211">>>>, <<"U+0212", <<"U+0213">>>>,
    <<"U+0214", <<"U+0215">>>>, <<"U+0216", <<"U+0217">>>>,
    <<"U+0218", <<"U+0219">>>>, <<"U+021A", <<"U+021B">>>>,
    <<"U+021C", <<"U+021D">>>>, <<"U+021E", <<"U+021F">>>>,
    <<"U+0220", <<"U+019E">>>>, <<"U+0222", <<"U+0223">>>>,
    <<"U+0224", <<"U+0225">>>>, <<"U+0226", <<"U+0227">>>>,
    <<"U+0228", <<"U+0229">>>>, <<"U+022A", <<"U+022B">>>>,
    <<"U+022C", <<"U+022D">>>>, <<"U+022E", <<"U+022F">>>>,
    <<"U+0230", <<"U+0231">>>>, <<"U+0232", <<"U+0233">>>>,
    <<"U+023A", <<"U+2C65">>>>, <<"U+023B", <<"U+023C">>>>,
    <<"U+023D", <<"U+019A">>>>, <<"U+023E", <<"U+2C66">>>>,
    <<"U+0241", <<"U+0242">>>>, <<"U+0243", <<"U+0180">>>>,
    <<"U+0244", <<"U+0289">>>>, <<"U+0245", <<"U+028C">>>>,
    <<"U+0246", <<"U+0247">>>>, <<"U+0248", <<"U+0249">>>>,
    <<"U+024A", <<"U+024B">>>>, <<"U+024C", <<"U+024D">>>>,
    <<"U+024E", <<"U+024F">>>>, <<"U+0370", <<"U+0371">>>>,
    <<"U+0372", <<"U+0373">>>>, <<"U+0376", <<"U+0377">>>>,
    <<"U+037F", <<"U+03F3">>>>, <<"U+0386", <<"U+03AC">>>>,
    <<"U+0388", <<"U+03AD">>>>, <<"U+0389", <<"U+03AE">>>>,
    <<"U+038A", <<"U+03AF">>>>, <<"U+038C", <<"U+03CC">>>>,
    <<"U+038E", <<"U+03CD">>>>, <<"U+038F", <<"U+03CE">>>>,
    <<"U+0391", <<"U+03B1">>>>, <<"U+0392", <<"U+03B2">>>>,
    <<"U+0393", <<"U+03B3">>>>, <<"U+0394", <<"U+03B4">>>>,
    <<"U+0395", <<"U+03B5">>>>, <<"U+0396", <<"U+03B6">>>>,
    <<"U+0397", <<"U+03B7">>>>, <<"U+0398", <<"U+03B8">>>>,
    <<"U+0399", <<"U+03B9">>>>, <<"U+039A", <<"U+03BA">>>>,
    <<"U+039B", <<"U+03BB">>>>, <<"U+039C", <<"U+03BC">>>>,
    <<"U+039D", <<"U+03BD">>>>, <<"U+039E", <<"U+03BE">>>>,
    <<"U+039F", <<"U+03BF">>>>, <<"U+03A0", <<"U+03C0">>>>,
    <<"U+03A1", <<"U+03C1">>>>, <<"U+03A3", <<"U+03C3">>>>,
    <<"U+03A4", <<"U+03C4">>>>, <<"U+03A5", <<"U+03C5">>>>,
    <<"U+03A6", <<"U+03C6">>>>, <<"U+03A7", <<"U+03C7">>>>,
    <<"U+03A8", <<"U+03C8">>>>, <<"U+03A9", <<"U+03C9">>>>,
    <<"U+03AA", <<"U+03CA">>>>, <<"U+03AB", <<"U+03CB">>>>,
    <<"U+03CF", <<"U+03D7">>>>, <<"U+03D8", <<"U+03D9">>>>,
    <<"U+03DA", <<"U+03DB">>>>, <<"U+03DC", <<"U+03DD">>>>,
    <<"U+03DE", <<"U+03DF">>>>, <<"U+03E0", <<"U+03E1">>>>,
    <<"U+03E2", <<"U+03E3">>>>, <<"U+03E4", <<"U+03E5">>>>,
    <<"U+03E6", <<"U+03E7">>>>, <<"U+03E8", <<"U+03E9">>>>,
    <<"U+03EA", <<"U+03EB">>>>, <<"U+03EC", <<"U+03ED">>>>,
    <<"U+03EE", <<"U+03EF">>>>, <<"U+03F4", <<"U+03B8">>>>,
    <<"U+03F7", <<"U+03F8">>>>, <<"U+03F9", <<"U+03F2">>>>,
    <<"U+03FA", <<"U+03FB">>>>, <<"U+03FD", <<"U+037B">>>>,
    <<"U+03FE", <<"U+037C">>>>, <<"U+03FF", <<"U+037D">>>>,
    <<"U+0400", <<"U+0450">>>>, <<"U+0401", <<"U+0451">>>>,
    <<"U+0402", <<"U+0452">>>>, <<"U+0403", <<"U+0453">>>>,
    <<"U+0404", <<"U+0454">>>>, <<"U+0405", <<"U+0455">>>>,
    <<"U+0406", <<"U+0456">>>>, <<"U+0407", <<"U+0457">>>>,
    <<"U+0408", <<"U+0458">>>>, <<"U+0409", <<"U+0459">>>>,
    <<"U+040A", <<"U+045A">>>>, <<"U+040B", <<"U+045B">>>>,
    <<"U+040C", <<"U+045C">>>>, <<"U+040D", <<"U+045D">>>>,
    <<"U+040E", <<"U+045E">>>>, <<"U+040F", <<"U+045F">>>>,
    <<"U+0410", <<"U+0430">>>>, <<"U+0411", <<"U+0431">>>>,
    <<"U+0412", <<"U+0432">>>>, <<"U+0413", <<"U+0433">>>>,
    <<"U+0414", <<"U+0434">>>>, <<"U+0415", <<"U+0435">>>>,
    <<"U+0416", <<"U+0436">>>>, <<"U+0417", <<"U+0437">>>>,
    <<"U+0418", <<"U+0438">>>>, <<"U+0419", <<"U+0439">>>>,
    <<"U+041A", <<"U+043A">>>>, <<"U+041B", <<"U+043B">>>>,
    <<"U+041C", <<"U+043C">>>>, <<"U+041D", <<"U+043D">>>>,
    <<"U+041E", <<"U+043E">>>>, <<"U+041F", <<"U+043F">>>>,
    <<"U+0420", <<"U+0440">>>>, <<"U+0421", <<"U+0441">>>>,
    <<"U+0422", <<"U+0442">>>>, <<"U+0423", <<"U+0443">>>>,
    <<"U+0424", <<"U+0444">>>>, <<"U+0425", <<"U+0445">>>>,
    <<"U+0426", <<"U+0446">>>>, <<"U+0427", <<"U+0447">>>>,
    <<"U+0428", <<"U+0448">>>>, <<"U+0429", <<"U+0449">>>>,
    <<"U+042A", <<"U+044A">>>>, <<"U+042B", <<"U+044B">>>>,
    <<"U+042C", <<"U+044C">>>>, <<"U+042D", <<"U+044D">>>>,
    <<"U+042E", <<"U+044E">>>>, <<"U+042F", <<"U+044F">>>>,
    <<"U+0460", <<"U+0461">>>>, <<"U+0462", <<"U+0463">>>>,
    <<"U+0464", <<"U+0465">>>>, <<"U+0466", <<"U+0467">>>>,
    <<"U+0468", <<"U+0469">>>>, <<"U+046A", <<"U+046B">>>>,
    <<"U+046C", <<"U+046D">>>>, <<"U+046E", <<"U+046F">>>>,
    <<"U+0470", <<"U+0471">>>>, <<"U+0472", <<"U+0473">>>>,
    <<"U+0474", <<"U+0475">>>>, <<"U+0476", <<"U+0477">>>>,
    <<"U+0478", <<"U+0479">>>>, <<"U+047A", <<"U+047B">>>>,
    <<"U+047C", <<"U+047D">>>>, <<"U+047E", <<"U+047F">>>>,
    <<"U+0480", <<"U+0481">>>>, <<"U+048A", <<"U+048B">>>>,
    <<"U+048C", <<"U+048D">>>>, <<"U+048E", <<"U+048F">>>>,
    <<"U+0490", <<"U+0491">>>>, <<"U+0492", <<"U+0493">>>>,
    <<"U+0494", <<"U+0495">>>>, <<"U+0496", <<"U+0497">>>>,
    <<"U+0498", <<"U+0499">>>>, <<"U+049A", <<"U+049B">>>>,
    <<"U+049C", <<"U+049D">>>>, <<"U+049E", <<"U+049F">>>>,
    <<"U+04A0", <<"U+04A1">>>>, <<"U+04A2", <<"U+04A3">>>>,
    <<"U+04A4", <<"U+04A5">>>>, <<"U+04A6", <<"U+04A7">>>>,
    <<"U+04A8", <<"U+04A9">>>>, <<"U+04AA", <<"U+04AB">>>>,
    <<"U+04AC", <<"U+04AD">>>>, <<"U+04AE", <<"U+04AF">>>>,
    <<"U+04B0", <<"U+04B1">>>>, <<"U+04B2", <<"U+04B3">>>>,
    <<"U+04B4", <<"U+04B5">>>>, <<"U+04B6", <<"U+04B7">>>>,
    <<"U+04B8", <<"U+04B9">>>>, <<"U+04BA", <<"U+04BB">>>>,
    <<"U+04BC", <<"U+04BD">>>>, <<"U+04BE", <<"U+04BF">>>>,
    <<"U+04C0", <<"U+04CF">>>>, <<"U+04C1", <<"U+04C2">>>>,
    <<"U+04C3", <<"U+04C4">>>>, <<"U+04C5", <<"U+04C6">>>>,
    <<"U+04C7", <<"U+04C8">>>>, <<"U+04C9", <<"U+04CA">>>>,
    <<"U+04CB", <<"U+04CC">>>>, <<"U+04CD", <<"U+04CE">>>>,
    <<"U+04D0", <<"U+04D1">>>>, <<"U+04D2", <<"U+04D3">>>>,
    <<"U+04D4", <<"U+04D5">>>>, <<"U+04D6", <<"U+04D7">>>>,
    <<"U+04D8", <<"U+04D9">>>>, <<"U+04DA", <<"U+04DB">>>>,
    <<"U+04DC", <<"U+04DD">>>>, <<"U+04DE", <<"U+04DF">>>>,
    <<"U+04E0", <<"U+04E1">>>>, <<"U+04E2", <<"U+04E3">>>>,
    <<"U+04E4", <<"U+04E5">>>>, <<"U+04E6", <<"U+04E7">>>>,
    <<"U+04E8", <<"U+04E9">>>>, <<"U+04EA", <<"U+04EB">>>>,
    <<"U+04EC", <<"U+04ED">>>>, <<"U+04EE", <<"U+04EF">>>>,
    <<"U+04F0", <<"U+04F1">>>>, <<"U+04F2", <<"U+04F3">>>>,
    <<"U+04F4", <<"U+04F5">>>>, <<"U+04F6", <<"U+04F7">>>>,
    <<"U+04F8", <<"U+04F9">>>>, <<"U+04FA", <<"U+04FB">>>>,
    <<"U+04FC", <<"U+04FD">>>>, <<"U+04FE", <<"U+04FF">>>>,
    <<"U+0500", <<"U+0501">>>>, <<"U+0502", <<"U+0503">>>>,
    <<"U+0504", <<"U+0505">>>>, <<"U+0506", <<"U+0507">>>>,
    <<"U+0508", <<"U+0509">>>>, <<"U+050A", <<"U+050B">>>>,
    <<"U+050C", <<"U+050D">>>>, <<"U+050E", <<"U+050F">>>>,
    <<"U+0510", <<"U+0511">>>>, <<"U+0512", <<"U+0513">>>>,
    <<"U+0514", <<"U+0515">>>>, <<"U+0516", <<"U+0517">>>>,
    <<"U+0518", <<"U+0519">>>>, <<"U+051A", <<"U+051B">>>>,
    <<"U+051C", <<"U+051D">>>>, <<"U+051E", <<"U+051F">>>>,
    <<"U+0520", <<"U+0521">>>>, <<"U+0522", <<"U+0523">>>>,
    <<"U+0524", <<"U+0525">>>>, <<"U+0526", <<"U+0527">>>>,
    <<"U+0528", <<"U+0529">>>>, <<"U+052A", <<"U+052B">>>>,
    <<"U+052C", <<"U+052D">>>>, <<"U+052E", <<"U+052F">>>>,
    <<"U+0531", <<"U+0561">>>>, <<"U+0532", <<"U+0562">>>>,
    <<"U+0533", <<"U+0563">>>>, <<"U+0534", <<"U+0564">>>>,
    <<"U+0535", <<"U+0565">>>>, <<"U+0536", <<"U+0566">>>>,
    <<"U+0537", <<"U+0567">>>>, <<"U+0538", <<"U+0568">>>>,
    <<"U+0539", <<"U+0569">>>>, <<"U+053A", <<"U+056A">>>>,
    <<"U+053B", <<"U+056B">>>>, <<"U+053C", <<"U+056C">>>>,
    <<"U+053D", <<"U+056D">>>>, <<"U+053E", <<"U+056E">>>>,
    <<"U+053F", <<"U+056F">>>>, <<"U+0540", <<"U+0570">>>>,
    <<"U+0541", <<"U+0571">>>>, <<"U+0542", <<"U+0572">>>>,
    <<"U+0543", <<"U+0573">>>>, <<"U+0544", <<"U+0574">>>>,
    <<"U+0545", <<"U+0575">>>>, <<"U+0546", <<"U+0576">>>>,
    <<"U+0547", <<"U+0577">>>>, <<"U+0548", <<"U+0578">>>>,
    <<"U+0549", <<"U+0579">>>>, <<"U+054A", <<"U+057A">>>>,
    <<"U+054B", <<"U+057B">>>>, <<"U+054C", <<"U+057C">>>>,
    <<"U+054D", <<"U+057D">>>>, <<"U+054E", <<"U+057E">>>>,
    <<"U+054F", <<"U+057F">>>>, <<"U+0550", <<"U+0580">>>>,
    <<"U+0551", <<"U+0581">>>>, <<"U+0552", <<"U+0582">>>>,
    <<"U+0553", <<"U+0583">>>>, <<"U+0554", <<"U+0584">>>>,
    <<"U+0555", <<"U+0585">>>>, <<"U+0556", <<"U+0586">>>>,
    <<"U+10A0", <<"U+2D00">>>>, <<"U+10A1", <<"U+2D01">>>>,
    <<"U+10A2", <<"U+2D02">>>>, <<"U+10A3", <<"U+2D03">>>>,
    <<"U+10A4", <<"U+2D04">>>>, <<"U+10A5", <<"U+2D05">>>>,
    <<"U+10A6", <<"U+2D06">>>>, <<"U+10A7", <<"U+2D07">>>>,
    <<"U+10A8", <<"U+2D08">>>>, <<"U+10A9", <<"U+2D09">>>>,
    <<"U+10AA", <<"U+2D0A">>>>, <<"U+10AB", <<"U+2D0B">>>>,
    <<"U+10AC", <<"U+2D0C">>>>, <<"U+10AD", <<"U+2D0D">>>>,
    <<"U+10AE", <<"U+2D0E">>>>, <<"U+10AF", <<"U+2D0F">>>>,
    <<"U+10B0", <<"U+2D10">>>>, <<"U+10B1", <<"U+2D11">>>>,
    <<"U+10B2", <<"U+2D12">>>>, <<"U+10B3", <<"U+2D13">>>>,
    <<"U+10B4", <<"U+2D14">>>>, <<"U+10B5", <<"U+2D15">>>>,
    <<"U+10B6", <<"U+2D16">>>>, <<"U+10B7", <<"U+2D17">>>>,
    <<"U+10B8", <<"U+2D18">>>>, <<"U+10B9", <<"U+2D19">>>>,
    <<"U+10BA", <<"U+2D1A">>>>, <<"U+10BB", <<"U+2D1B">>>>,
    <<"U+10BC", <<"U+2D1C">>>>, <<"U+10BD", <<"U+2D1D">>>>,
    <<"U+10BE", <<"U+2D1E">>>>, <<"U+10BF", <<"U+2D1F">>>>,
    <<"U+10C0", <<"U+2D20">>>>, <<"U+10C1", <<"U+2D21">>>>,
    <<"U+10C2", <<"U+2D22">>>>, <<"U+10C3", <<"U+2D23">>>>,
    <<"U+10C4", <<"U+2D24">>>>, <<"U+10C5", <<"U+2D25">>>>,
    <<"U+10C7", <<"U+2D27">>>>, <<"U+10CD", <<"U+2D2D">>>>,
    <<"U+13A0", <<"U+AB70">>>>, <<"U+13A1", <<"U+AB71">>>>,
    <<"U+13A2", <<"U+AB72">>>>, <<"U+13A3", <<"U+AB73">>>>,
    <<"U+13A4", <<"U+AB74">>>>, <<"U+13A5", <<"U+AB75">>>>,
    <<"U+13A6", <<"U+AB76">>>>, <<"U+13A7", <<"U+AB77">>>>,
    <<"U+13A8", <<"U+AB78">>>>, <<"U+13A9", <<"U+AB79">>>>,
    <<"U+13AA", <<"U+AB7A">>>>, <<"U+13AB", <<"U+AB7B">>>>,
    <<"U+13AC", <<"U+AB7C">>>>, <<"U+13AD", <<"U+AB7D">>>>,
    <<"U+13AE", <<"U+AB7E">>>>, <<"U+13AF", <<"U+AB7F">>>>,
    <<"U+13B0", <<"U+AB80">>>>, <<"U+13B1", <<"U+AB81">>>>,
    <<"U+13B2", <<"U+AB82">>>>, <<"U+13B3", <<"U+AB83">>>>,
    <<"U+13B4", <<"U+AB84">>>>, <<"U+13B5", <<"U+AB85">>>>,
    <<"U+13B6", <<"U+AB86">>>>, <<"U+13B7", <<"U+AB87">>>>,
    <<"U+13B8", <<"U+AB88">>>>, <<"U+13B9", <<"U+AB89">>>>,
    <<"U+13BA", <<"U+AB8A">>>>, <<"U+13BB", <<"U+AB8B">>>>,
    <<"U+13BC", <<"U+AB8C">>>>, <<"U+13BD", <<"U+AB8D">>>>,
    <<"U+13BE", <<"U+AB8E">>>>, <<"U+13BF", <<"U+AB8F">>>>,
    <<"U+13C0", <<"U+AB90">>>>, <<"U+13C1", <<"U+AB91">>>>,
    <<"U+13C2", <<"U+AB92">>>>, <<"U+13C3", <<"U+AB93">>>>,
    <<"U+13C4", <<"U+AB94">>>>, <<"U+13C5", <<"U+AB95">>>>,
    <<"U+13C6", <<"U+AB96">>>>, <<"U+13C7", <<"U+AB97">>>>,
    <<"U+13C8", <<"U+AB98">>>>, <<"U+13C9", <<"U+AB99">>>>,
    <<"U+13CA", <<"U+AB9A">>>>, <<"U+13CB", <<"U+AB9B">>>>,
    <<"U+13CC", <<"U+AB9C">>>>, <<"U+13CD", <<"U+AB9D">>>>,
    <<"U+13CE", <<"U+AB9E">>>>, <<"U+13CF", <<"U+AB9F">>>>,
    <<"U+13D0", <<"U+ABA0">>>>, <<"U+13D1", <<"U+ABA1">>>>,
    <<"U+13D2", <<"U+ABA2">>>>, <<"U+13D3", <<"U+ABA3">>>>,
    <<"U+13D4", <<"U+ABA4">>>>, <<"U+13D5", <<"U+ABA5">>>>,
    <<"U+13D6", <<"U+ABA6">>>>, <<"U+13D7", <<"U+ABA7">>>>,
    <<"U+13D8", <<"U+ABA8">>>>, <<"U+13D9", <<"U+ABA9">>>>,
    <<"U+13DA", <<"U+ABAA">>>>, <<"U+13DB", <<"U+ABAB">>>>,
    <<"U+13DC", <<"U+ABAC">>>>, <<"U+13DD", <<"U+ABAD">>>>,
    <<"U+13DE", <<"U+ABAE">>>>, <<"U+13DF", <<"U+ABAF">>>>,
    <<"U+13E0", <<"U+ABB0">>>>, <<"U+13E1", <<"U+ABB1">>>>,
    <<"U+13E2", <<"U+ABB2">>>>, <<"U+13E3", <<"U+ABB3">>>>,
    <<"U+13E4", <<"U+ABB4">>>>, <<"U+13E5", <<"U+ABB5">>>>,
    <<"U+13E6", <<"U+ABB6">>>>, <<"U+13E7", <<"U+ABB7">>>>,
    <<"U+13E8", <<"U+ABB8">>>>, <<"U+13E9", <<"U+ABB9">>>>,
    <<"U+13EA", <<"U+ABBA">>>>, <<"U+13EB", <<"U+ABBB">>>>,
    <<"U+13EC", <<"U+ABBC">>>>, <<"U+13ED", <<"U+ABBD">>>>,
    <<"U+13EE", <<"U+ABBE">>>>, <<"U+13EF", <<"U+ABBF">>>>,
    <<"U+13F0", <<"U+13F8">>>>, <<"U+13F1", <<"U+13F9">>>>,
    <<"U+13F2", <<"U+13FA">>>>, <<"U+13F3", <<"U+13FB">>>>,
    <<"U+13F4", <<"U+13FC">>>>, <<"U+13F5", <<"U+13FD">>>>,
    <<"U+1C89", <<"U+1C8A">>>>, <<"U+1C90", <<"U+10D0">>>>,
    <<"U+1C91", <<"U+10D1">>>>, <<"U+1C92", <<"U+10D2">>>>,
    <<"U+1C93", <<"U+10D3">>>>, <<"U+1C94", <<"U+10D4">>>>,
    <<"U+1C95", <<"U+10D5">>>>, <<"U+1C96", <<"U+10D6">>>>,
    <<"U+1C97", <<"U+10D7">>>>, <<"U+1C98", <<"U+10D8">>>>,
    <<"U+1C99", <<"U+10D9">>>>, <<"U+1C9A", <<"U+10DA">>>>,
    <<"U+1C9B", <<"U+10DB">>>>, <<"U+1C9C", <<"U+10DC">>>>,
    <<"U+1C9D", <<"U+10DD">>>>, <<"U+1C9E", <<"U+10DE">>>>,
    <<"U+1C9F", <<"U+10DF">>>>, <<"U+1CA0", <<"U+10E0">>>>,
    <<"U+1CA1", <<"U+10E1">>>>, <<"U+1CA2", <<"U+10E2">>>>,
    <<"U+1CA3", <<"U+10E3">>>>, <<"U+1CA4", <<"U+10E4">>>>,
    <<"U+1CA5", <<"U+10E5">>>>, <<"U+1CA6", <<"U+10E6">>>>,
    <<"U+1CA7", <<"U+10E7">>>>, <<"U+1CA8", <<"U+10E8">>>>,
    <<"U+1CA9", <<"U+10E9">>>>, <<"U+1CAA", <<"U+10EA">>>>,
    <<"U+1CAB", <<"U+10EB">>>>, <<"U+1CAC", <<"U+10EC">>>>,
    <<"U+1CAD", <<"U+10ED">>>>, <<"U+1CAE", <<"U+10EE">>>>,
    <<"U+1CAF", <<"U+10EF">>>>, <<"U+1CB0", <<"U+10F0">>>>,
    <<"U+1CB1", <<"U+10F1">>>>, <<"U+1CB2", <<"U+10F2">>>>,
    <<"U+1CB3", <<"U+10F3">>>>, <<"U+1CB4", <<"U+10F4">>>>,
    <<"U+1CB5", <<"U+10F5">>>>, <<"U+1CB6", <<"U+10F6">>>>,
    <<"U+1CB7", <<"U+10F7">>>>, <<"U+1CB8", <<"U+10F8">>>>,
    <<"U+1CB9", <<"U+10F9">>>>, <<"U+1CBA", <<"U+10FA">>>>,
    <<"U+1CBD", <<"U+10FD">>>>, <<"U+1CBE", <<"U+10FE">>>>,
    <<"U+1CBF", <<"U+10FF">>>>, <<"U+1E00", <<"U+1E01">>>>,
    <<"U+1E02", <<"U+1E03">>>>, <<"U+1E04", <<"U+1E05">>>>,
    <<"U+1E06", <<"U+1E07">>>>, <<"U+1E08", <<"U+1E09">>>>,
    <<"U+1E0A", <<"U+1E0B">>>>, <<"U+1E0C", <<"U+1E0D">>>>,
    <<"U+1E0E", <<"U+1E0F">>>>, <<"U+1E10", <<"U+1E11">>>>,
    <<"U+1E12", <<"U+1E13">>>>, <<"U+1E14", <<"U+1E15">>>>,
    <<"U+1E16", <<"U+1E17">>>>, <<"U+1E18", <<"U+1E19">>>>,
    <<"U+1E1A", <<"U+1E1B">>>>, <<"U+1E1C", <<"U+1E1D">>>>,
    <<"U+1E1E", <<"U+1E1F">>>>, <<"U+1E20", <<"U+1E21">>>>,
    <<"U+1E22", <<"U+1E23">>>>, <<"U+1E24", <<"U+1E25">>>>,
    <<"U+1E26", <<"U+1E27">>>>, <<"U+1E28", <<"U+1E29">>>>,
    <<"U+1E2A", <<"U+1E2B">>>>, <<"U+1E2C", <<"U+1E2D">>>>,
    <<"U+1E2E", <<"U+1E2F">>>>, <<"U+1E30", <<"U+1E31">>>>,
    <<"U+1E32", <<"U+1E33">>>>, <<"U+1E34", <<"U+1E35">>>>,
    <<"U+1E36", <<"U+1E37">>>>, <<"U+1E38", <<"U+1E39">>>>,
    <<"U+1E3A", <<"U+1E3B">>>>, <<"U+1E3C", <<"U+1E3D">>>>,
    <<"U+1E3E", <<"U+1E3F">>>>, <<"U+1E40", <<"U+1E41">>>>,
    <<"U+1E42", <<"U+1E43">>>>, <<"U+1E44", <<"U+1E45">>>>,
    <<"U+1E46", <<"U+1E47">>>>, <<"U+1E48", <<"U+1E49">>>>,
    <<"U+1E4A", <<"U+1E4B">>>>, <<"U+1E4C", <<"U+1E4D">>>>,
    <<"U+1E4E", <<"U+1E4F">>>>, <<"U+1E50", <<"U+1E51">>>>,
    <<"U+1E52", <<"U+1E53">>>>, <<"U+1E54", <<"U+1E55">>>>,
    <<"U+1E56", <<"U+1E57">>>>, <<"U+1E58", <<"U+1E59">>>>,
    <<"U+1E5A", <<"U+1E5B">>>>, <<"U+1E5C", <<"U+1E5D">>>>,
    <<"U+1E5E", <<"U+1E5F">>>>, <<"U+1E60", <<"U+1E61">>>>,
    <<"U+1E62", <<"U+1E63">>>>, <<"U+1E64", <<"U+1E65">>>>,
    <<"U+1E66", <<"U+1E67">>>>, <<"U+1E68", <<"U+1E69">>>>,
    <<"U+1E6A", <<"U+1E6B">>>>, <<"U+1E6C", <<"U+1E6D">>>>,
    <<"U+1E6E", <<"U+1E6F">>>>, <<"U+1E70", <<"U+1E71">>>>,
    <<"U+1E72", <<"U+1E73">>>>, <<"U+1E74", <<"U+1E75">>>>,
    <<"U+1E76", <<"U+1E77">>>>, <<"U+1E78", <<"U+1E79">>>>,
    <<"U+1E7A", <<"U+1E7B">>>>, <<"U+1E7C", <<"U+1E7D">>>>,
    <<"U+1E7E", <<"U+1E7F">>>>, <<"U+1E80", <<"U+1E81">>>>,
    <<"U+1E82", <<"U+1E83">>>>, <<"U+1E84", <<"U+1E85">>>>,
    <<"U+1E86", <<"U+1E87">>>>, <<"U+1E88", <<"U+1E89">>>>,
    <<"U+1E8A", <<"U+1E8B">>>>, <<"U+1E8C", <<"U+1E8D">>>>,
    <<"U+1E8E", <<"U+1E8F">>>>, <<"U+1E90", <<"U+1E91">>>>,
    <<"U+1E92", <<"U+1E93">>>>, <<"U+1E94", <<"U+1E95">>>>,
    <<"U+1E9E", <<"U+00DF">>>>, <<"U+1EA0", <<"U+1EA1">>>>,
    <<"U+1EA2", <<"U+1EA3">>>>, <<"U+1EA4", <<"U+1EA5">>>>,
    <<"U+1EA6", <<"U+1EA7">>>>, <<"U+1EA8", <<"U+1EA9">>>>,
    <<"U+1EAA", <<"U+1EAB">>>>, <<"U+1EAC", <<"U+1EAD">>>>,
    <<"U+1EAE", <<"U+1EAF">>>>, <<"U+1EB0", <<"U+1EB1">>>>,
    <<"U+1EB2", <<"U+1EB3">>>>, <<"U+1EB4", <<"U+1EB5">>>>,
    <<"U+1EB6", <<"U+1EB7">>>>, <<"U+1EB8", <<"U+1EB9">>>>,
    <<"U+1EBA", <<"U+1EBB">>>>, <<"U+1EBC", <<"U+1EBD">>>>,
    <<"U+1EBE", <<"U+1EBF">>>>, <<"U+1EC0", <<"U+1EC1">>>>,
    <<"U+1EC2", <<"U+1EC3">>>>, <<"U+1EC4", <<"U+1EC5">>>>,
    <<"U+1EC6", <<"U+1EC7">>>>, <<"U+1EC8", <<"U+1EC9">>>>,
    <<"U+1ECA", <<"U+1ECB">>>>, <<"U+1ECC", <<"U+1ECD">>>>,
    <<"U+1ECE", <<"U+1ECF">>>>, <<"U+1ED0", <<"U+1ED1">>>>,
    <<"U+1ED2", <<"U+1ED3">>>>, <<"U+1ED4", <<"U+1ED5">>>>,
    <<"U+1ED6", <<"U+1ED7">>>>, <<"U+1ED8", <<"U+1ED9">>>>,
    <<"U+1EDA", <<"U+1EDB">>>>, <<"U+1EDC", <<"U+1EDD">>>>,
    <<"U+1EDE", <<"U+1EDF">>>>, <<"U+1EE0", <<"U+1EE1">>>>,
    <<"U+1EE2", <<"U+1EE3">>>>, <<"U+1EE4", <<"U+1EE5">>>>,
    <<"U+1EE6", <<"U+1EE7">>>>, <<"U+1EE8", <<"U+1EE9">>>>,
    <<"U+1EEA", <<"U+1EEB">>>>, <<"U+1EEC", <<"U+1EED">>>>,
    <<"U+1EEE", <<"U+1EEF">>>>, <<"U+1EF0", <<"U+1EF1">>>>,
    <<"U+1EF2", <<"U+1EF3">>>>, <<"U+1EF4", <<"U+1EF5">>>>,
    <<"U+1EF6", <<"U+1EF7">>>>, <<"U+1EF8", <<"U+1EF9">>>>,
    <<"U+1EFA", <<"U+1EFB">>>>, <<"U+1EFC", <<"U+1EFD">>>>,
    <<"U+1EFE", <<"U+1EFF">>>>, <<"U+1F08", <<"U+1F00">>>>,
    <<"U+1F09", <<"U+1F01">>>>, <<"U+1F0A", <<"U+1F02">>>>,
    <<"U+1F0B", <<"U+1F03">>>>, <<"U+1F0C", <<"U+1F04">>>>,
    <<"U+1F0D", <<"U+1F05">>>>, <<"U+1F0E", <<"U+1F06">>>>,
    <<"U+1F0F", <<"U+1F07">>>>, <<"U+1F18", <<"U+1F10">>>>,
    <<"U+1F19", <<"U+1F11">>>>, <<"U+1F1A", <<"U+1F12">>>>,
    <<"U+1F1B", <<"U+1F13">>>>, <<"U+1F1C", <<"U+1F14">>>>,
    <<"U+1F1D", <<"U+1F15">>>>, <<"U+1F28", <<"U+1F20">>>>,
    <<"U+1F29", <<"U+1F21">>>>, <<"U+1F2A", <<"U+1F22">>>>,
    <<"U+1F2B", <<"U+1F23">>>>, <<"U+1F2C", <<"U+1F24">>>>,
    <<"U+1F2D", <<"U+1F25">>>>, <<"U+1F2E", <<"U+1F26">>>>,
    <<"U+1F2F", <<"U+1F27">>>>, <<"U+1F38", <<"U+1F30">>>>,
    <<"U+1F39", <<"U+1F31">>>>, <<"U+1F3A", <<"U+1F32">>>>,
    <<"U+1F3B", <<"U+1F33">>>>, <<"U+1F3C", <<"U+1F34">>>>,
    <<"U+1F3D", <<"U+1F35">>>>, <<"U+1F3E", <<"U+1F36">>>>,
    <<"U+1F3F", <<"U+1F37">>>>, <<"U+1F48", <<"U+1F40">>>>,
    <<"U+1F49", <<"U+1F41">>>>, <<"U+1F4A", <<"U+1F42">>>>,
    <<"U+1F4B", <<"U+1F43">>>>, <<"U+1F4C", <<"U+1F44">>>>,
    <<"U+1F4D", <<"U+1F45">>>>, <<"U+1F59", <<"U+1F51">>>>,
    <<"U+1F5B", <<"U+1F53">>>>, <<"U+1F5D", <<"U+1F55">>>>,
    <<"U+1F5F", <<"U+1F57">>>>, <<"U+1F68", <<"U+1F60">>>>,
    <<"U+1F69", <<"U+1F61">>>>, <<"U+1F6A", <<"U+1F62">>>>,
    <<"U+1F6B", <<"U+1F63">>>>, <<"U+1F6C", <<"U+1F64">>>>,
    <<"U+1F6D", <<"U+1F65">>>>, <<"U+1F6E", <<"U+1F66">>>>,
    <<"U+1F6F", <<"U+1F67">>>>, <<"U+1F88", <<"U+1F80">>>>,
    <<"U+1F89", <<"U+1F81">>>>, <<"U+1F8A", <<"U+1F82">>>>,
    <<"U+1F8B", <<"U+1F83">>>>, <<"U+1F8C", <<"U+1F84">>>>,
    <<"U+1F8D", <<"U+1F85">>>>, <<"U+1F8E", <<"U+1F86">>>>,
    <<"U+1F8F", <<"U+1F87">>>>, <<"U+1F98", <<"U+1F90">>>>,
    <<"U+1F99", <<"U+1F91">>>>, <<"U+1F9A", <<"U+1F92">>>>,
    <<"U+1F9B", <<"U+1F93">>>>, <<"U+1F9C", <<"U+1F94">>>>,
    <<"U+1F9D", <<"U+1F95">>>>, <<"U+1F9E", <<"U+1F96">>>>,
    <<"U+1F9F", <<"U+1F97">>>>, <<"U+1FA8", <<"U+1FA0">>>>,
    <<"U+1FA9", <<"U+1FA1">>>>, <<"U+1FAA", <<"U+1FA2">>>>,
    <<"U+1FAB", <<"U+1FA3">>>>, <<"U+1FAC", <<"U+1FA4">>>>,
    <<"U+1FAD", <<"U+1FA5">>>>, <<"U+1FAE", <<"U+1FA6">>>>,
    <<"U+1FAF", <<"U+1FA7">>>>, <<"U+1FB8", <<"U+1FB0">>>>,
    <<"U+1FB9", <<"U+1FB1">>>>, <<"U+1FBA", <<"U+1F70">>>>,
    <<"U+1FBB", <<"U+1F71">>>>, <<"U+1FBC", <<"U+1FB3">>>>,
    <<"U+1FC8", <<"U+1F72">>>>, <<"U+1FC9", <<"U+1F73">>>>,
    <<"U+1FCA", <<"U+1F74">>>>, <<"U+1FCB", <<"U+1F75">>>>,
    <<"U+1FCC", <<"U+1FC3">>>>, <<"U+1FD8", <<"U+1FD0">>>>,
    <<"U+1FD9", <<"U+1FD1">>>>, <<"U+1FDA", <<"U+1F76">>>>,
    <<"U+1FDB", <<"U+1F77">>>>, <<"U+1FE8", <<"U+1FE0">>>>,
    <<"U+1FE9", <<"U+1FE1">>>>, <<"U+1FEA", <<"U+1F7A">>>>,
    <<"U+1FEB", <<"U+1F7B">>>>, <<"U+1FEC", <<"U+1FE5">>>>,
    <<"U+1FF8", <<"U+1F78">>>>, <<"U+1FF9", <<"U+1F79">>>>,
    <<"U+1FFA", <<"U+1F7C">>>>, <<"U+1FFB", <<"U+1F7D">>>>,
    <<"U+1FFC", <<"U+1FF3">>>>, <<"U+2126", <<"U+03C9">>>>,
    <<"U+212A", <<"k">>>>, <<"U+212B", <<"U+00E5">>>>,
    <<"U+2132", <<"U+214E">>>>, <<"U+2160", <<"U+2170">>>>,
    <<"U+2161", <<"U+2171">>>>, <<"U+2162", <<"U+2172">>>>,
    <<"U+2163", <<"U+2173">>>>, <<"U+2164", <<"U+2174">>>>,
    <<"U+2165", <<"U+2175">>>>, <<"U+2166", <<"U+2176">>>>,
    <<"U+2167", <<"U+2177">>>>, <<"U+2168", <<"U+2178">>>>,
    <<"U+2169", <<"U+2179">>>>, <<"U+216A", <<"U+217A">>>>,
    <<"U+216B", <<"U+217B">>>>, <<"U+216C", <<"U+217C">>>>,
    <<"U+216D", <<"U+217D">>>>, <<"U+216E", <<"U+217E">>>>,
    <<"U+216F", <<"U+217F">>>>, <<"U+2183", <<"U+2184">>>>,
    <<"U+24B6", <<"U+24D0">>>>, <<"U+24B7", <<"U+24D1">>>>,
    <<"U+24B8", <<"U+24D2">>>>, <<"U+24B9", <<"U+24D3">>>>,
    <<"U+24BA", <<"U+24D4">>>>, <<"U+24BB", <<"U+24D5">>>>,
    <<"U+24BC", <<"U+24D6">>>>, <<"U+24BD", <<"U+24D7">>>>,
    <<"U+24BE", <<"U+24D8">>>>, <<"U+24BF", <<"U+24D9">>>>,
    <<"U+24C0", <<"U+24DA">>>>, <<"U+24C1", <<"U+24DB">>>>,
    <<"U+24C2", <<"U+24DC">>>>, <<"U+24C3", <<"U+24DD">>>>,
    <<"U+24C4", <<"U+24DE">>>>, <<"U+24C5", <<"U+24DF">>>>,
    <<"U+24C6", <<"U+24E0">>>>, <<"U+24C7", <<"U+24E1">>>>,
    <<"U+24C8", <<"U+24E2">>>>, <<"U+24C9", <<"U+24E3">>>>,
    <<"U+24CA", <<"U+24E4">>>>, <<"U+24CB", <<"U+24E5">>>>,
    <<"U+24CC", <<"U+24E6">>>>, <<"U+24CD", <<"U+24E7">>>>,
    <<"U+24CE", <<"U+24E8">>>>, <<"U+24CF", <<"U+24E9">>>>,
    <<"U+2C00", <<"U+2C30">>>>, <<"U+2C01", <<"U+2C31">>>>,
    <<"U+2C02", <<"U+2C32">>>>, <<"U+2C03", <<"U+2C33">>>>,
    <<"U+2C04", <<"U+2C34">>>>, <<"U+2C05", <<"U+2C35">>>>,
    <<"U+2C06", <<"U+2C36">>>>, <<"U+2C07", <<"U+2C37">>>>,
    <<"U+2C08", <<"U+2C38">>>>, <<"U+2C09", <<"U+2C39">>>>,
    <<"U+2C0A", <<"U+2C3A">>>>, <<"U+2C0B", <<"U+2C3B">>>>,
    <<"U+2C0C", <<"U+2C3C">>>>, <<"U+2C0D", <<"U+2C3D">>>>,
    <<"U+2C0E", <<"U+2C3E">>>>, <<"U+2C0F", <<"U+2C3F">>>>,
    <<"U+2C10", <<"U+2C40">>>>, <<"U+2C11", <<"U+2C41">>>>,
    <<"U+2C12", <<"U+2C42">>>>, <<"U+2C13", <<"U+2C43">>>>,
    <<"U+2C14", <<"U+2C44">>>>, <<"U+2C15", <<"U+2C45">>>>,
    <<"U+2C16", <<"U+2C46">>>>, <<"U+2C17", <<"U+2C47">>>>,
    <<"U+2C18", <<"U+2C48">>>>, <<"U+2C19", <<"U+2C49">>>>,
    <<"U+2C1A", <<"U+2C4A">>>>, <<"U+2C1B", <<"U+2C4B">>>>,
    <<"U+2C1C", <<"U+2C4C">>>>, <<"U+2C1D", <<"U+2C4D">>>>,
    <<"U+2C1E", <<"U+2C4E">>>>, <<"U+2C1F", <<"U+2C4F">>>>,
    <<"U+2C20", <<"U+2C50">>>>, <<"U+2C21", <<"U+2C51">>>>,
    <<"U+2C22", <<"U+2C52">>>>, <<"U+2C23", <<"U+2C53">>>>,
    <<"U+2C24", <<"U+2C54">>>>, <<"U+2C25", <<"U+2C55">>>>,
    <<"U+2C26", <<"U+2C56">>>>, <<"U+2C27", <<"U+2C57">>>>,
    <<"U+2C28", <<"U+2C58">>>>, <<"U+2C29", <<"U+2C59">>>>,
    <<"U+2C2A", <<"U+2C5A">>>>, <<"U+2C2B", <<"U+2C5B">>>>,
    <<"U+2C2C", <<"U+2C5C">>>>, <<"U+2C2D", <<"U+2C5D">>>>,
    <<"U+2C2E", <<"U+2C5E">>>>, <<"U+2C2F", <<"U+2C5F">>>>,
    <<"U+2C60", <<"U+2C61">>>>, <<"U+2C62", <<"U+026B">>>>,
    <<"U+2C63", <<"U+1D7D">>>>, <<"U+2C64", <<"U+027D">>>>,
    <<"U+2C67", <<"U+2C68">>>>, <<"U+2C69", <<"U+2C6A">>>>,
    <<"U+2C6B", <<"U+2C6C">>>>, <<"U+2C6D", <<"U+0251">>>>,
    <<"U+2C6E", <<"U+0271">>>>, <<"U+2C6F", <<"U+0250">>>>,
    <<"U+2C70", <<"U+0252">>>>, <<"U+2C72", <<"U+2C73">>>>,
    <<"U+2C75", <<"U+2C76">>>>, <<"U+2C7E", <<"U+023F">>>>,
    <<"U+2C7F", <<"U+0240">>>>, <<"U+2C80", <<"U+2C81">>>>,
    <<"U+2C82", <<"U+2C83">>>>, <<"U+2C84", <<"U+2C85">>>>,
    <<"U+2C86", <<"U+2C87">>>>, <<"U+2C88", <<"U+2C89">>>>,
    <<"U+2C8A", <<"U+2C8B">>>>, <<"U+2C8C", <<"U+2C8D">>>>,
    <<"U+2C8E", <<"U+2C8F">>>>, <<"U+2C90", <<"U+2C91">>>>,
    <<"U+2C92", <<"U+2C93">>>>, <<"U+2C94", <<"U+2C95">>>>,
    <<"U+2C96", <<"U+2C97">>>>, <<"U+2C98", <<"U+2C99">>>>,
    <<"U+2C9A", <<"U+2C9B">>>>, <<"U+2C9C", <<"U+2C9D">>>>,
    <<"U+2C9E", <<"U+2C9F">>>>, <<"U+2CA0", <<"U+2CA1">>>>,
    <<"U+2CA2", <<"U+2CA3">>>>, <<"U+2CA4", <<"U+2CA5">>>>,
    <<"U+2CA6", <<"U+2CA7">>>>, <<"U+2CA8", <<"U+2CA9">>>>,
    <<"U+2CAA", <<"U+2CAB">>>>, <<"U+2CAC", <<"U+2CAD">>>>,
    <<"U+2CAE", <<"U+2CAF">>>>, <<"U+2CB0", <<"U+2CB1">>>>,
    <<"U+2CB2", <<"U+2CB3">>>>, <<"U+2CB4", <<"U+2CB5">>>>,
    <<"U+2CB6", <<"U+2CB7">>>>, <<"U+2CB8", <<"U+2CB9">>>>,
    <<"U+2CBA", <<"U+2CBB">>>>, <<"U+2CBC", <<"U+2CBD">>>>,
    <<"U+2CBE", <<"U+2CBF">>>>, <<"U+2CC0", <<"U+2CC1">>>>,
    <<"U+2CC2", <<"U+2CC3">>>>, <<"U+2CC4", <<"U+2CC5">>>>,
    <<"U+2CC6", <<"U+2CC7">>>>, <<"U+2CC8", <<"U+2CC9">>>>,
    <<"U+2CCA", <<"U+2CCB">>>>, <<"U+2CCC", <<"U+2CCD">>>>,
    <<"U+2CCE", <<"U+2CCF">>>>, <<"U+2CD0", <<"U+2CD1">>>>,
    <<"U+2CD2", <<"U+2CD3">>>>, <<"U+2CD4", <<"U+2CD5">>>>,
    <<"U+2CD6", <<"U+2CD7">>>>, <<"U+2CD8", <<"U+2CD9">>>>,
    <<"U+2CDA", <<"U+2CDB">>>>, <<"U+2CDC", <<"U+2CDD">>>>,
    <<"U+2CDE", <<"U+2CDF">>>>, <<"U+2CE0", <<"U+2CE1">>>>,
    <<"U+2CE2", <<"U+2CE3">>>>, <<"U+2CEB", <<"U+2CEC">>>>,
    <<"U+2CED", <<"U+2CEE">>>>, <<"U+2CF2", <<"U+2CF3">>>>,
    <<"U+A640", <<"U+A641">>>>, <<"U+A642", <<"U+A643">>>>,
    <<"U+A644", <<"U+A645">>>>, <<"U+A646", <<"U+A647">>>>,
    <<"U+A648", <<"U+A649">>>>, <<"U+A64A", <<"U+A64B">>>>,
    <<"U+A64C", <<"U+A64D">>>>, <<"U+A64E", <<"U+A64F">>>>,
    <<"U+A650", <<"U+A651">>>>, <<"U+A652", <<"U+A653">>>>,
    <<"U+A654", <<"U+A655">>>>, <<"U+A656", <<"U+A657">>>>,
    <<"U+A658", <<"U+A659">>>>, <<"U+A65A", <<"U+A65B">>>>,
    <<"U+A65C", <<"U+A65D">>>>, <<"U+A65E", <<"U+A65F">>>>,
    <<"U+A660", <<"U+A661">>>>, <<"U+A662", <<"U+A663">>>>,
    <<"U+A664", <<"U+A665">>>>, <<"U+A666", <<"U+A667">>>>,
    <<"U+A668", <<"U+A669">>>>, <<"U+A66A", <<"U+A66B">>>>,
    <<"U+A66C", <<"U+A66D">>>>, <<"U+A680", <<"U+A681">>>>,
    <<"U+A682", <<"U+A683">>>>, <<"U+A684", <<"U+A685">>>>,
    <<"U+A686", <<"U+A687">>>>, <<"U+A688", <<"U+A689">>>>,
    <<"U+A68A", <<"U+A68B">>>>, <<"U+A68C", <<"U+A68D">>>>,
    <<"U+A68E", <<"U+A68F">>>>, <<"U+A690", <<"U+A691">>>>,
    <<"U+A692", <<"U+A693">>>>, <<"U+A694", <<"U+A695">>>>,
    <<"U+A696", <<"U+A697">>>>, <<"U+A698", <<"U+A699">>>>,
    <<"U+A69A", <<"U+A69B">>>>, <<"U+A722", <<"U+A723">>>>,
    <<"U+A724", <<"U+A725">>>>, <<"U+A726", <<"U+A727">>>>,
    <<"U+A728", <<"U+A729">>>>, <<"U+A72A", <<"U+A72B">>>>,
    <<"U+A72C", <<"U+A72D">>>>, <<"U+A72E", <<"U+A72F">>>>,
    <<"U+A732", <<"U+A733">>>>, <<"U+A734", <<"U+A735">>>>,
    <<"U+A736", <<"U+A737">>>>, <<"U+A738", <<"U+A739">>>>,
    <<"U+A73A", <<"U+A73B">>>>, <<"U+A73C", <<"U+A73D">>>>,
    <<"U+A73E", <<"U+A73F">>>>, <<"U+A740", <<"U+A741">>>>,
    <<"U+A742", <<"U+A743">>>>, <<"U+A744", <<"U+A745">>>>,
    <<"U+A746", <<"U+A747">>>>, <<"U+A748", <<"U+A749">>>>,
    <<"U+A74A", <<"U+A74B">>>>, <<"U+A74C", <<"U+A74D">>>>,
    <<"U+A74E", <<"U+A74F">>>>, <<"U+A750", <<"U+A751">>>>,
    <<"U+A752", <<"U+A753">>>>, <<"U+A754", <<"U+A755">>>>,
    <<"U+A756", <<"U+A757">>>>, <<"U+A758", <<"U+A759">>>>,
    <<"U+A75A", <<"U+A75B">>>>, <<"U+A75C", <<"U+A75D">>>>,
    <<"U+A75E", <<"U+A75F">>>>, <<"U+A760", <<"U+A761">>>>,
    <<"U+A762", <<"U+A763">>>>, <<"U+A764", <<"U+A765">>>>,
    <<"U+A766", <<"U+A767">>>>, <<"U+A768", <<"U+A769">>>>,
    <<"U+A76A", <<"U+A76B">>>>, <<"U+A76C", <<"U+A76D">>>>,
    <<"U+A76E", <<"U+A76F">>>>, <<"U+A779", <<"U+A77A">>>>,
    <<"U+A77B", <<"U+A77C">>>>, <<"U+A77D", <<"U+1D79">>>>,
    <<"U+A77E", <<"U+A77F">>>>, <<"U+A780", <<"U+A781">>>>,
    <<"U+A782", <<"U+A783">>>>, <<"U+A784", <<"U+A785">>>>,
    <<"U+A786", <<"U+A787">>>>, <<"U+A78B", <<"U+A78C">>>>,
    <<"U+A78D", <<"U+0265">>>>, <<"U+A790", <<"U+A791">>>>,
    <<"U+A792", <<"U+A793">>>>, <<"U+A796", <<"U+A797">>>>,
    <<"U+A798", <<"U+A799">>>>, <<"U+A79A", <<"U+A79B">>>>,
    <<"U+A79C", <<"U+A79D">>>>, <<"U+A79E", <<"U+A79F">>>>,
    <<"U+A7A0", <<"U+A7A1">>>>, <<"U+A7A2", <<"U+A7A3">>>>,
    <<"U+A7A4", <<"U+A7A5">>>>, <<"U+A7A6", <<"U+A7A7">>>>,
    <<"U+A7A8", <<"U+A7A9">>>>, <<"U+A7AA", <<"U+0266">>>>,
    <<"U+A7AB", <<"U+025C">>>>, <<"U+A7AC", <<"U+0261">>>>,
    <<"U+A7AD", <<"U+026C">>>>, <<"U+A7AE", <<"U+026A">>>>,
    <<"U+A7B0", <<"U+029E">>>>, <<"U+A7B1", <<"U+0287">>>>,
    <<"U+A7B2", <<"U+029D">>>>, <<"U+A7B3", <<"U+AB53">>>>,
    <<"U+A7B4", <<"U+A7B5">>>>, <<"U+A7B6", <<"U+A7B7">>>>,
    <<"U+A7B8", <<"U+A7B9">>>>, <<"U+A7BA", <<"U+A7BB">>>>,
    <<"U+A7BC", <<"U+A7BD">>>>, <<"U+A7BE", <<"U+A7BF">>>>,
    <<"U+A7C0", <<"U+A7C1">>>>, <<"U+A7C2", <<"U+A7C3">>>>,
    <<"U+A7C4", <<"U+A794">>>>, <<"U+A7C5", <<"U+0282">>>>,
    <<"U+A7C6", <<"U+1D8E">>>>, <<"U+A7C7", <<"U+A7C8">>>>,
    <<"U+A7C9", <<"U+A7CA">>>>, <<"U+A7CB", <<"U+0264">>>>,
    <<"U+A7CC", <<"U+A7CD">>>>, <<"U+A7CE", <<"U+A7CF">>>>,
    <<"U+A7D0", <<"U+A7D1">>>>, <<"U+A7D2", <<"U+A7D3">>>>,
    <<"U+A7D4", <<"U+A7D5">>>>, <<"U+A7D6", <<"U+A7D7">>>>,
    <<"U+A7D8", <<"U+A7D9">>>>, <<"U+A7DA", <<"U+A7DB">>>>,
    <<"U+A7DC", <<"U+019B">>>>, <<"U+A7F5", <<"U+A7F6">>>>,
    <<"U+FF21", <<"U+FF41">>>>, <<"U+FF22", <<"U+FF42">>>>,
    <<"U+FF23", <<"U+FF43">>>>, <<"U+FF24", <<"U+FF44">>>>,
    <<"U+FF25", <<"U+FF45">>>>, <<"U+FF26", <<"U+FF46">>>>,
    <<"U+FF27", <<"U+FF47">>>>, <<"U+FF28", <<"U+FF48">>>>,
    <<"U+FF29", <<"U+FF49">>>>, <<"U+FF2A", <<"U+FF4A">>>>,
    <<"U+FF2B", <<"U+FF4B">>>>, <<"U+FF2C", <<"U+FF4C">>>>,
    <<"U+FF2D", <<"U+FF4D">>>>, <<"U+FF2E", <<"U+FF4E">>>>,
    <<"U+FF2F", <<"U+FF4F">>>>, <<"U+FF30", <<"U+FF50">>>>,
    <<"U+FF31", <<"U+FF51">>>>, <<"U+FF32", <<"U+FF52">>>>,
    <<"U+FF33", <<"U+FF53">>>>, <<"U+FF34", <<"U+FF54">>>>,
    <<"U+FF35", <<"U+FF55">>>>, <<"U+FF36", <<"U+FF56">>>>,
    <<"U+FF37", <<"U+FF57">>>>, <<"U+FF38", <<"U+FF58">>>>,
    <<"U+FF39", <<"U+FF59">>>>, <<"U+FF3A", <<"U+FF5A">>>>
    >>

\* the letters outside the BMP, as surrogate pairs, with their upper case
UpperSurrogatePairs ==
    <<
   <<<<"U+D801", "U+DC28">>, <<"U+D801", "U+DC00">>>>,
    <<<<"U+D801", "U+DC29">>, <<"U+D801", "U+DC01">>>>,
    <<<<"U+D801", "U+DC2A">>, <<"U+D801", "U+DC02">>>>,
    <<<<"U+D801", "U+DC2B">>, <<"U+D801", "U+DC03">>>>,
    <<<<"U+D801", "U+DC2C">>, <<"U+D801", "U+DC04">>>>,
    <<<<"U+D801", "U+DC2D">>, <<"U+D801", "U+DC05">>>>,
    <<<<"U+D801", "U+DC2E">>, <<"U+D801", "U+DC06">>>>,
    <<<<"U+D801", "U+DC2F">>, <<"U+D801", "U+DC07">>>>,
    <<<<"U+D801", "U+DC30">>, <<"U+D801", "U+DC08">>>>,
    <<<<"U+D801", "U+DC31">>, <<"U+D801", "U+DC09">>>>,
    <<<<"U+D801", "U+DC32">>, <<"U+D801", "U+DC0A">>>>,
    <<<<"U+D801", "U+DC33">>, <<"U+D801", "U+DC0B">>>>,
    <<<<"U+D801", "U+DC34">>, <<"U+D801", "U+DC0C">>>>,
    <<<<"U+D801", "U+DC35">>, <<"U+D801", "U+DC0D">>>>,
    <<<<"U+D801", "U+DC36">>, <<"U+D801", "U+DC0E">>>>,
    <<<<"U+D801", "U+DC37">>, <<"U+D801", "U+DC0F">>>>,
    <<<<"U+D801", "U+DC38">>, <<"U+D801", "U+DC10">>>>,
    <<<<"U+D801", "U+DC39">>, <<"U+D801", "U+DC11">>>>,
    <<<<"U+D801", "U+DC3A">>, <<"U+D801", "U+DC12">>>>,
    <<<<"U+D801", "U+DC3B">>, <<"U+D801", "U+DC13">>>>,
    <<<<"U+D801", "U+DC3C">>, <<"U+D801", "U+DC14">>>>,
    <<<<"U+D801", "U+DC3D">>, <<"U+D801", "U+DC15">>>>,
    <<<<"U+D801", "U+DC3E">>, <<"U+D801", "U+DC16">>>>,
    <<<<"U+D801", "U+DC3F">>, <<"U+D801", "U+DC17">>>>,
    <<<<"U+D801", "U+DC40">>, <<"U+D801", "U+DC18">>>>,
    <<<<"U+D801", "U+DC41">>, <<"U+D801", "U+DC19">>>>,
    <<<<"U+D801", "U+DC42">>, <<"U+D801", "U+DC1A">>>>,
    <<<<"U+D801", "U+DC43">>, <<"U+D801", "U+DC1B">>>>,
    <<<<"U+D801", "U+DC44">>, <<"U+D801", "U+DC1C">>>>,
    <<<<"U+D801", "U+DC45">>, <<"U+D801", "U+DC1D">>>>,
    <<<<"U+D801", "U+DC46">>, <<"U+D801", "U+DC1E">>>>,
    <<<<"U+D801", "U+DC47">>, <<"U+D801", "U+DC1F">>>>,
    <<<<"U+D801", "U+DC48">>, <<"U+D801", "U+DC20">>>>,
    <<<<"U+D801", "U+DC49">>, <<"U+D801", "U+DC21">>>>,
    <<<<"U+D801", "U+DC4A">>, <<"U+D801", "U+DC22">>>>,
    <<<<"U+D801", "U+DC4B">>, <<"U+D801", "U+DC23">>>>,
    <<<<"U+D801", "U+DC4C">>, <<"U+D801", "U+DC24">>>>,
    <<<<"U+D801", "U+DC4D">>, <<"U+D801", "U+DC25">>>>,
    <<<<"U+D801", "U+DC4E">>, <<"U+D801", "U+DC26">>>>,
    <<<<"U+D801", "U+DC4F">>, <<"U+D801", "U+DC27">>>>,
    <<<<"U+D801", "U+DCD8">>, <<"U+D801", "U+DCB0">>>>,
    <<<<"U+D801", "U+DCD9">>, <<"U+D801", "U+DCB1">>>>,
    <<<<"U+D801", "U+DCDA">>, <<"U+D801", "U+DCB2">>>>,
    <<<<"U+D801", "U+DCDB">>, <<"U+D801", "U+DCB3">>>>,
    <<<<"U+D801", "U+DCDC">>, <<"U+D801", "U+DCB4">>>>,
    <<<<"U+D801", "U+DCDD">>, <<"U+D801", "U+DCB5">>>>,
    <<<<"U+D801", "U+DCDE">>, <<"U+D801", "U+DCB6">>>>,
    <<<<"U+D801", "U+DCDF">>, <<"U+D801", "U+DCB7">>>>,
    <<<<"U+D801", "U+DCE0">>, <<"U+D801", "U+DCB8">>>>,
    <<<<"U+D801", "U+DCE1">>, <<"U+D801", "U+DCB9">>>>,
    <<<<"U+D801", "U+DCE2">>, <<"U+D801", "U+DCBA">>>>,
    <<<<"U+D801", "U+DCE3">>, <<"U+D801", "U+DCBB">>>>,
    <<<<"U+D801", "U+DCE4">>, <<"U+D801", "U+DCBC">>>>,
    <<<<"U+D801", "U+DCE5">>, <<"U+D801", "U+DCBD">>>>,
    <<<<"U+D801", "U+DCE6">>, <<"U+D801", "U+DCBE">>>>,
    <<<<"U+D801", "U+DCE7">>, <<"U+D801", "U+DCBF">>>>,
    <<<<"U+D801", "U+DCE8">>, <<"U+D801", "U+DCC0">>>>,
    <<<<"U+D801", "U+DCE9">>, <<"U+D801", "U+DCC1">>>>,
    <<<<"U+D801", "U+DCEA">>, <<"U+D801", "U+DCC2">>>>,
    <<<<"U+D801", "U+DCEB">>, <<"U+D801", "U+DCC3">>>>,
    <<<<"U+D801", "U+DCEC">>, <<"U+D801", "U+DCC4">>>>,
    <<<<"U+D801", "U+DCED">>, <<"U+D801", "U+DCC5">>>>,
    <<<<"U+D801", "U+DCEE">>, <<"U+D801", "U+DCC6">>>>,
    <<<<"U+D801", "U+DCEF">>, <<"U+D801", "U+DCC7">>>>,
    <<<<"U+D801", "U+DCF0">>, <<"U+D801", "U+DCC8">>>>,
    <<<<"U+D801", "U+DCF1">>, <<"U+D801", "U+DCC9">>>>,
    <<<<"U+D801", "U+DCF2">>, <<"U+D801", "U+DCCA">>>>,
    <<<<"U+D801", "U+DCF3">>, <<"U+D801", "U+DCCB">>>>,
    <<<<"U+D801", "U+DCF4">>, <<"U+D801", "U+DCCC">>>>,
    <<<<"U+D801", "U+DCF5">>, <<"U+D801", "U+DCCD">>>>,
    <<<<"U+D801", "U+DCF6">>, <<"U+D801", "U+DCCE">>>>,
    <<<<"U+D801", "U+DCF7">>, <<"U+D801", "U+DCCF">>>>,
    <<<<"U+D801", "U+DCF8">>, <<"U+D801", "U+DCD0">>>>,
    <<<<"U+D801", "U+DCF9">>, <<"U+D801", "U+DCD1">>>>,
    <<<<"U+D801", "U+DCFA">>, <<"U+D801", "U+DCD2">>>>,
    <<<<"U+D801", "U+DCFB">>, <<"U+D801", "U+DCD3">>>>,
    <<<<"U+D801", "U+DD97">>, <<"U+D801", "U+DD70">>>>,
    <<<<"U+D801", "U+DD98">>, <<"U+D801", "U+DD71">>>>,
    <<<<"U+D801", "U+DD99">>, <<"U+D801", "U+DD72">>>>,
    <<<<"U+D801", "U+DD9A">>, <<"U+D801", "U+DD73">>>>,
    <<<<"U+D801", "U+DD9B">>, <<"U+D801", "U+DD74">>>>,
    <<<<"U+D801", "U+DD9C">>, <<"U+D801", "U+DD75">>>>,
    <<<<"U+D801", "U+DD9D">>, <<"U+D801", "U+DD76">>>>,
    <<<<"U+D801", "U+DD9E">>, <<"U+D801", "U+DD77">>>>,
    <<<<"U+D801", "U+DD9F">>, <<"U+D801", "U+DD78">>>>,
    <<<<"U+D801", "U+DDA0">>, <<"U+D801", "U+DD79">>>>,
    <<<<"U+D801", "U+DDA1">>, <<"U+D801", "U+DD7A">>>>,
    <<<<"U+D801", "U+DDA3">>, <<"U+D801", "U+DD7C">>>>,
    <<<<"U+D801", "U+DDA4">>, <<"U+D801", "U+DD7D">>>>,
    <<<<"U+D801", "U+DDA5">>, <<"U+D801", "U+DD7E">>>>,
    <<<<"U+D801", "U+DDA6">>, <<"U+D801", "U+DD7F">>>>,
    <<<<"U+D801", "U+DDA7">>, <<"U+D801", "U+DD80">>>>,
    <<<<"U+D801", "U+DDA8">>, <<"U+D801", "U+DD81">>>>,
    <<<<"U+D801", "U+DDA9">>, <<"U+D801", "U+DD82">>>>,
    <<<<"U+D801", "U+DDAA">>, <<"U+D801", "U+DD83">>>>,
    <<<<"U+D801", "U+DDAB">>, <<"U+D801", "U+DD84">>>>,
    <<<<"U+D801", "U+DDAC">>, <<"U+D801", "U+DD85">>>>,
    <<<<"U+D801", "U+DDAD">>, <<"U+D801", "U+DD86">>>>,
    <<<<"U+D801", "U+DDAE">>, <<"U+D801", "U+DD87">>>>,
    <<<<"U+D801", "U+DDAF">>, <<"U+D801", "U+DD88">>>>,
    <<<<"U+D801", "U+DDB0">>, <<"U+D801", "U+DD89">>>>,
    <<<<"U+D801", "U+DDB1">>, <<"U+D801", "U+DD8A">>>>,
    <<<<"U+D801", "U+DDB3">>, <<"U+D801", "U+DD8C">>>>,
    <<<<"U+D801", "U+DDB4">>, <<"U+D801", "U+DD8D">>>>,
    <<<<"U+D801", "U+DDB5">>, <<"U+D801", "U+DD8E">>>>,
    <<<<"U+D801", "U+DDB6">>, <<"U+D801", "U+DD8F">>>>,
    <<<<"U+D801", "U+DDB7">>, <<"U+D801", "U+DD90">>>>,
    <<<<"U+D801", "U+DDB8">>, <<"U+D801", "U+DD91">>>>,
    <<<<"U+D801", "U+DDB9">>, <<"U+D801", "U+DD92">>>>,
    <<<<"U+D801", "U+DDBB">>, <<"U+D801", "U+DD94">>>>,
    <<<<"U+D801", "U+DDBC">>, <<"U+D801", "U+DD95">>>>,
    <<<<"U+D803", "U+DCC0">>, <<"U+D803", "U+DC80">>>>,
    <<<<"U+D803", "U+DCC1">>, <<"U+D803", "U+DC81">>>>,
    <<<<"U+D803", "U+DCC2">>, <<"U+D803", "U+DC82">>>>,
    <<<<"U+D803", "U+DCC3">>, <<"U+D803", "U+DC83">>>>,
    <<<<"U+D803", "U+DCC4">>, <<"U+D803", "U+DC84">>>>,
    <<<<"U+D803", "U+DCC5">>, <<"U+D803", "U+DC85">>>>,
    <<<<"U+D803", "U+DCC6">>, <<"U+D803", "U+DC86">>>>,
    <<<<"U+D803", "U+DCC7">>, <<"U+D803", "U+DC87">>>>,
    <<<<"U+D803", "U+DCC8">>, <<"U+D803", "U+DC88">>>>,
    <<<<"U+D803", "U+DCC9">>, <<"U+D803", "U+DC89">>>>,
    <<<<"U+D803", "U+DCCA">>, <<"U+D803", "U+DC8A">>>>,
    <<<<"U+D803", "U+DCCB">>, <<"U+D803", "U+DC8B">>>>,
    <<<<"U+D803", "U+DCCC">>, <<"U+D803", "U+DC8C">>>>,
    <<<<"U+D803", "U+DCCD">>, <<"U+D803", "U+DC8D">>>>,
    <<<<"U+D803", "U+DCCE">>, <<"U+D803", "U+DC8E">>>>,
    <<<<"U+D803", "U+DCCF">>, <<"U+D803", "U+DC8F">>>>,
    <<<<"U+D803", "U+DCD0">>, <<"U+D803", "U+DC90">>>>,
    <<<<"U+D803", "U+DCD1">>, <<"U+D803", "U+DC91">>>>,
    <<<<"U+D803", "U+DCD2">>, <<"U+D803", "U+DC92">>>>,
    <<<<"U+D803", "U+DCD3">>, <<"U+D803", "U+DC93">>>>,
    <<<<"U+D803", "U+DCD4">>, <<"U+D803", "U+DC94">>>>,
    <<<<"U+D803", "U+DCD5">>, <<"U+D803", "U+DC95">>>>,
    <<<<"U+D803", "U+DCD6">>, <<"U+D803", "U+DC96">>>>,
    <<<<"U+D803", "U+DCD7">>, <<"U+D803", "U+DC97">>>>,
    <<<<"U+D803", "U+DCD8">>, <<"U+D803", "U+DC98">>>>,
    <<<<"U+D803", "U+DCD9">>, <<"U+D803", "U+DC99">>>>,
    <<<<"U+D803", "U+DCDA">>, <<"U+D803", "U+DC9A">>>>,
    <<<<"U+D803", "U+DCDB">>, <<"U+D803", "U+DC9B">>>>,
    <<<<"U+D803", "U+DCDC">>, <<"U+D803", "U+DC9C">>>>,
    <<<<"U+D803", "U+DCDD">>, <<"U+D803", "U+DC9D">>>>,
    <<<<"U+D803", "U+DCDE">>, <<"U+D803", "U+DC9E">>>>,
    <<<<"U+D803", "U+DCDF">>, <<"U+D803", "U+DC9F">>>>,
    <<<<"U+D803", "U+DCE0">>, <<"U+D803", "U+DCA0">>>>,
    <<<<"U+D803", "U+DCE1">>, <<"U+D803", "U+DCA1">>>>,
    <<<<"U+D803", "U+DCE2">>, <<"U+D803", "U+DCA2">>>>,
    <<<<"U+D803", "U+DCE3">>, <<"U+D803", "U+DCA3">>>>,
    <<<<"U+D803", "U+DCE4">>, <<"U+D803", "U+DCA4">>>>,
    <<<<"U+D803", "U+DCE5">>, <<"U+D803", "U+DCA5">>>>,
    <<<<"U+D803", "U+DCE6">>, <<"U+D803", "U+DCA6">>>>,
    <<<<"U+D803", "U+DCE7">>, <<"U+D803", "U+DCA7">>>>,
    <<<<"U+D803", "U+DCE8">>, <<"U+D803", "U+DCA8">>>>,
    <<<<"U+D803", "U+DCE9">>, <<"U+D803", "U+DCA9">>>>,
    <<<<"U+D803", "U+DCEA">>, <<"U+D803", "U+DCAA">>>>,
    <<<<"U+D803", "U+DCEB">>, <<"U+D803", "U+DCAB">>>>,
    <<<<"U+D803", "U+DCEC">>, <<"U+D803", "U+DCAC">>>>,
    <<<<"U+D803", "U+DCED">>, <<"U+D803", "U+DCAD">>>>,
    <<<<"U+D803", "U+DCEE">>, <<"U+D803", "U+DCAE">>>>,
    <<<<"U+D803", "U+DCEF">>, <<"U+D803", "U+DCAF">>>>,
    <<<<"U+D803", "U+DCF0">>, <<"U+D803", "U+DCB0">>>>,
    <<<<"U+D803", "U+DCF1">>, <<"U+D803", "U+DCB1">>>>,
    <<<<"U+D803", "U+DCF2">>, <<"U+D803", "U+DCB2">>>>,
    <<<<"U+D803", "U+DD70">>, <<"U+D803", "U+DD50">>>>,
    <<<<"U+D803", "U+DD71">>, <<"U+D803", "U+DD51">>>>,
    <<<<"U+D803", "U+DD72">>, <<"U+D803", "U+DD52">>>>,
    <<<<"U+D803", "U+DD73">>, <<"U+D803", "U+DD53">>>>,
    <<<<"U+D803", "U+DD74">>, <<"U+D803", "U+DD54">>>>,
    <<<<"U+D803", "U+DD75">>, <<"U+D803", "U+DD55">>>>,
    <<<<"U+D803", "U+DD76">>, <<"U+D803", "U+DD56">>>>,
    <<<<"U+D803", "U+DD77">>, <<"U+D803", "U+DD57">>>>,
    <<<<"U+D803", "U+DD78">>, <<"U+D803", "U+DD58">>>>,
    <<<<"U+D803", "U+DD79">>, <<"U+D803", "U+DD59">>>>,
    <<<<"U+D803", "U+DD7A">>, <<"U+D803", "U+DD5A">>>>,
    <<<<"U+D803", "U+DD7B">>, <<"U+D803", "U+DD5B">>>>,
    <<<<"U+D803", "U+DD7C">>, <<"U+D803", "U+DD5C">>>>,
    <<<<"U+D803", "U+DD7D">>, <<"U+D803", "U+DD5D">>>>,
    <<<<"U+D803", "U+DD7E">>, <<"U+D803", "U+DD5E">>>>,
    <<<<"U+D803", "U+DD7F">>, <<"U+D803", "U+DD5F">>>>,
    <<<<"U+D803", "U+DD80">>, <<"U+D803", "U+DD60">>>>,
    <<<<"U+D803", "U+DD81">>, <<"U+D803", "U+DD61">>>>,
    <<<<"U+D803", "U+DD82">>, <<"U+D803", "U+DD62">>>>,
    <<<<"U+D803", "U+DD83">>, <<"U+D803", "U+DD63">>>>,
    <<<<"U+D803", "U+DD84">>, <<"U+D803", "U+DD64">>>>,
    <<<<"U+D803", "U+DD85">>, <<"U+D803", "U+DD65">>>>,
    <<<<"U+D806", "U+DCC0">>, <<"U+D806", "U+DCA0">>>>,
    <<<<"U+D806", "U+DCC1">>, <<"U+D806", "U+DCA1">>>>,
    <<<<"U+D806", "U+DCC2">>, <<"U+D806", "U+DCA2">>>>,
    <<<<"U+D806", "U+DCC3">>, <<"U+D806", "U+DCA3">>>>,
    <<<<"U+D806", "U+DCC4">>, <<"U+D806", "U+DCA4">>>>,
    <<<<"U+D806", "U+DCC5">>, <<"U+D806", "U+DCA5">>>>,
    <<<<"U+D806", "U+DCC6">>, <<"U+D806", "U+DCA6">>>>,
    <<<<"U+D806", "U+DCC7">>, <<"U+D806", "U+DCA7">>>>,
    <<<<"U+D806", "U+DCC8">>, <<"U+D806", "U+DCA8">>>>,
    <<<<"U+D806", "U+DCC9">>, <<"U+D806", "U+DCA9">>>>,
    <<<<"U+D806", "U+DCCA">>, <<"U+D806", "U+DCAA">>>>,
    <<<<"U+D806", "U+DCCB">>, <<"U+D806", "U+DCAB">>>>,
    <<<<"U+D806", "U+DCCC">>, <<"U+D806", "U+DCAC">>>>,
    <<<<"U+D806", "U+DCCD">>, <<"U+D806", "U+DCAD">>>>,
    <<<<"U+D806", "U+DCCE">>, <<"U+D806", "U+DCAE">>>>,
    <<<<"U+D806", "U+DCCF">>, <<"U+D806", "U+DCAF">>>>,
    <<<<"U+D806", "U+DCD0">>, <<"U+D806", "U+DCB0">>>>,
    <<<<"U+D806", "U+DCD1">>, <<"U+D806", "U+DCB1">>>>,
    <<<<"U+D806", "U+DCD2">>, <<"U+D806", "U+DCB2">>>>,
    <<<<"U+D806", "U+DCD3">>, <<"U+D806", "U+DCB3">>>>,
    <<<<"U+D806", "U+DCD4">>, <<"U+D806", "U+DCB4">>>>,
    <<<<"U+D806", "U+DCD5">>, <<"U+D806", "U+DCB5">>>>,
    <<<<"U+D806", "U+DCD6">>, <<"U+D806", "U+DCB6">>>>,
    <<<<"U+D806", "U+DCD7">>, <<"U+D806", "U+DCB7">>>>,
    <<<<"U+D806", "U+DCD8">>, <<"U+D806", "U+DCB8">>>>,
    <<<<"U+D806", "U+DCD9">>, <<"U+D806", "U+DCB9">>>>,
    <<<<"U+D806", "U+DCDA">>, <<"U+D806", "U+DCBA">>>>,
    <<<<"U+D806", "U+DCDB">>, <<"U+D806", "U+DCBB">>>>,
    <<<<"U+D806", "U+DCDC">>, <<"U+D806", "U+DCBC">>>>,
    <<<<"U+D806", "U+DCDD">>, <<"U+D806", "U+DCBD">>>>,
    <<<<"U+D806", "U+DCDE">>, <<"U+D806", "U+DCBE">>>>,
    <<<<"U+D806", "U+DCDF">>, <<"U+D806", "U+DCBF">>>>,
    <<<<"U+D81B", "U+DE60">>, <<"U+D81B", "U+DE40">>>>,
    <<<<"U+D81B", "U+DE61">>, <<"U+D81B", "U+DE41">>>>,
    <<<<"U+D81B", "U+DE62">>, <<"U+D81B", "U+DE42">>>>,
    <<<<"U+D81B", "U+DE63">>, <<"U+D81B", "U+DE43">>>>,
    <<<<"U+D81B", "U+DE64">>, <<"U+D81B", "U+DE44">>>>,
    <<<<"U+D81B", "U+DE65">>, <<"U+D81B", "U+DE45">>>>,
    <<<<"U+D81B", "U+DE66">>, <<"U+D81B", "U+DE46">>>>,
    <<<<"U+D81B", "U+DE67">>, <<"U+D81B", "U+DE47">>>>,
    <<<<"U+D81B", "U+DE68">>, <<"U+D81B", "U+DE48">>>>,
    <<<<"U+D81B", "U+DE69">>, <<"U+D81B", "U+DE49">>>>,
    <<<<"U+D81B", "U+DE6A">>, <<"U+D81B", "U+DE4A">>>>,
    <<<<"U+D81B", "U+DE6B">>, <<"U+D81B", "U+DE4B">>>>,
    <<<<"U+D81B", "U+DE6C">>, <<"U+D81B", "U+DE4C">>>>,
    <<<<"U+D81B", "U+DE6D">>, <<"U+D81B", "U+DE4D">>>>,
    <<<<"U+D81B", "U+DE6E">>, <<"U+D81B", "U+DE4E">>>>,
    <<<<"U+D81B", "U+DE6F">>, <<"U+D81B", "U+DE4F">>>>,
    <<<<"U+D81B", "U+DE70">>, <<"U+D81B", "U+DE50">>>>,
    <<<<"U+D81B", "U+DE71">>, <<"U+D81B", "U+DE51">>>>,
    <<<<"U+D81B", "U+DE72">>, <<"U+D81B", "U+DE52">>>>,
    <<<<"U+D81B", "U+DE73">>, <<"U+D81B", "U+DE53">>>>,
    <<<<"U+D81B", "U+DE74">>, <<"U+D81B", "U+DE54">>>>,
    <<<<"U+D81B", "U+DE75">>, <<"U+D81B", "U+DE55">>>>,
    <<<<"U+D81B", "U+DE76">>, <<"U+D81B", "U+DE56">>>>,
    <<<<"U+D81B", "U+DE77">>, <<"U+D81B", "U+DE57">>>>,
    <<<<"U+D81B", "U+DE78">>, <<"U+D81B", "U+DE58">>>>,
    <<<<"U+D81B", "U+DE79">>, <<"U+D81B", "U+DE59">>>>,
    <<<<"U+D81B", "U+DE7A">>, <<"U+D81B", "U+DE5A">>>>,
    <<<<"U+D81B", "U+DE7B">>, <<"U+D81B", "U+DE5B">>>>,
    <<<<"U+D81B", "U+DE7C">>, <<"U+D81B", "U+DE5C">>>>,
    <<<<"U+D81B", "U+DE7D">>, <<"U+D81B", "U+DE5D">>>>,
    <<<<"U+D81B", "U+DE7E">>, <<"U+D81B", "U+DE5E">>>>,
    <<<<"U+D81B", "U+DE7F">>, <<"U+D81B", "U+DE5F">>>>,
    <<<<"U+D81B", "U+DEBB">>, <<"U+D81B", "U+DEA0">>>>,
    <<<<"U+D81B", "U+DEBC">>, <<"U+D81B", "U+DEA1">>>>,
    <<<<"U+D81B", "U+DEBD">>, <<"U+D81B", "U+DEA2">>>>,
    <<<<"U+D81B", "U+DEBE">>, <<"U+D81B", "U+DEA3">>>>,
    <<<<"U+D81B", "U+DEBF">>, <<"U+D81B", "U+DEA4">>>>,
    <<<<"U+D81B", "U+DEC0">>, <<"U+D81B", "U+DEA5">>>>,
    <<<<"U+D81B", "U+DEC1">>, <<"U+D81B", "U+DEA6">>>>,
    <<<<"U+D81B", "U+DEC2">>, <<"U+D81B", "U+DEA7">>>>,
    <<<<"U+D81B", "U+DEC3">>, <<"U+D81B", "U+DEA8">>>>,
    <<<<"U+D81B", "U+DEC4">>, <<"U+D81B", "U+DEA9">>>>,
    <<<<"U+D81B", "U+DEC5">>, <<"U+D81B", "U+DEAA">>>>,
    <<<<"U+D81B", "U+DEC6">>, <<"U+D81B", "U+DEAB">>>>,
    <<<<"U+D81B", "U+DEC7">>, <<"U+D81B", "U+DEAC">>>>,
    <<<<"U+D81B", "U+DEC8">>, <<"U+D81B", "U+DEAD">>>>,
    <<<<"U+D81B", "U+DEC9">>, <<"U+D81B", "U+DEAE">>>>,
    <<<<"U+D81B", "U+DECA">>, <<"U+D81B", "U+DEAF">>>>,
    <<<<"U+D81B", "U+DECB">>, <<"U+D81B", "U+DEB0">>>>,
    <<<<"U+D81B", "U+DECC">>, <<"U+D81B", "U+DEB1">>>>,
    <<<<"U+D81B", "U+DECD">>, <<"U+D81B", "U+DEB2">>>>,
    <<<<"U+D81B", "U+DECE">>, <<"U+D81B", "U+DEB3">>>>,
    <<<<"U+D81B", "U+DECF">>, <<"U+D81B", "U+DEB4">>>>,
    <<<<"U+D81B", "U+DED0">>, <<"U+D81B", "U+DEB5">>>>,
    <<<<"U+D81B", "U+DED1">>, <<"U+D81B", "U+DEB6">>>>,
    <<<<"U+D81B", "U+DED2">>, <<"U+D81B", "U+DEB7">>>>,
    <<<<"U+D81B", "U+DED3">>, <<"U+D81B", "U+DEB8">>>>,
    <<<<"U+D83A", "U+DD22">>, <<"U+D83A", "U+DD00">>>>,
    <<<<"U+D83A", "U+DD23">>, <<"U+D83A", "U+DD01">>>>,
    <<<<"U+D83A", "U+DD24">>, <<"U+D83A", "U+DD02">>>>,
    <<<<"U+D83A", "U+DD25">>, <<"U+D83A", "U+DD03">>>>,
    <<<<"U+D83A", "U+DD26">>, <<"U+D83A", "U+DD04">>>>,
    <<<<"U+D83A", "U+DD27">>, <<"U+D83A", "U+DD05">>>>,
    <<<<"U+D83A", "U+DD28">>, <<"U+D83A", "U+DD06">>>>,
    <<<<"U+D83A", "U+DD29">>, <<"U+D83A", "U+DD07">>>>,
    <<<<"U+D83A", "U+DD2A">>, <<"U+D83A", "U+DD08">>>>,
    <<<<"U+D83A", "U+DD2B">>, <<"U+D83A", "U+DD09">>>>,
    <<<<"U+D83A", "U+DD2C">>, <<"U+D83A", "U+DD0A">>>>,
    <<<<"U+D83A", "U+DD2D">>, <<"U+D83A", "U+DD0B">>>>,
    <<<<"U+D83A", "U+DD2E">>, <<"U+D83A", "U+DD0C">>>>,
    <<<<"U+D83A", "U+DD2F">>, <<"U+D83A", "U+DD0D">>>>,
    <<<<"U+D83A", "U+DD30">>, <<"U+D83A", "U+DD0E">>>>,
    <<<<"U+D83A", "U+DD31">>, <<"U+D83A", "U+DD0F">>>>,
    <<<<"U+D83A", "U+DD32">>, <<"U+D83A", "U+DD10">>>>,
    <<<<"U+D83A", "U+DD33">>, <<"U+D83A", "U+DD11">>>>,
    <<<<"U+D83A", "U+DD34">>, <<"U+D83A", "U+DD12">>>>,
    <<<<"U+D83A", "U+DD35">>, <<"U+D83A", "U+DD13">>>>,
    <<<<"U+D83A", "U+DD36">>, <<"U+D83A", "U+DD14">>>>,
    <<<<"U+D83A", "U+DD37">>, <<"U+D83A", "U+DD15">>>>,
    <<<<"U+D83A", "U+DD38">>, <<"U+D83A", "U+DD16">>>>,
    <<<<"U+D83A", "U+DD39">>, <<"U+D83A", "U+DD17">>>>,
    <<<<"U+D83A", "U+DD3A">>, <<"U+D83A", "U+DD18">>>>,
    <<<<"U+D83A", "U+DD3B">>, <<"U+D83A", "U+DD19">>>>,
    <<<<"U+D83A", "U+DD3C">>, <<"U+D83A", "U+DD1A">>>>,
    <<<<"U+D83A", "U+DD3D">>, <<"U+D83A", "U+DD1B">>>>,
    <<<<"U+D83A", "U+DD3E">>, <<"U+D83A", "U+DD1C">>>>,
    <<<<"U+D83A", "U+DD3F">>, <<"U+D83A", "U+DD1D">>>>,
    <<<<"U+D83A", "U+DD40">>, <<"U+D83A", "U+DD1E">>>>,
    <<<<"U+D83A", "U+DD41">>, <<"U+D83A", "U+DD1F">>>>,
    <<<<"U+D83A", "U+DD42">>, <<"U+D83A", "U+DD20">>>>,
    <<<<"U+D83A", "U+DD43">>, <<"U+D83A", "U+DD21">>>>
    >>

UpperOf ==
    [c \in {UpperPairs[k][1] : k \in 1..Len(UpperPairs)} |->
        UpperPairs[CHOOSE k \in 1..Len(UpperPairs) : UpperPairs[k][1] = c][2]]
LowerOf ==
    [c \in {LowerPairs[k][1] : k \in 1..Len(LowerPairs)} |->
        LowerPairs[CHOOSE k \in 1..Len(LowerPairs) : LowerPairs[k][1] = c][2]]
UpperSurrogateOf ==
    [c \in {UpperSurrogatePairs[k][1] : k \in 1..Len(UpperSurrogatePairs)} |->
        UpperSurrogatePairs[CHOOSE k \in 1..Len(UpperSurrogatePairs) :
                                UpperSurrogatePairs[k][1] = c][2]]

\* String.prototype.toUpperCase of a one-unit string; some units map to
\* several ("U+00DF", the sharp s, to "SS"), a lone surrogate to itself
UpperUnit(c) == IF c \in DOMAIN UpperOf THEN UpperOf[c] ELSE <<c>>

\* String.prototype.toLowerCase of a one-unit string; "U+0130", the dotted
\* capital I, maps to i followed by the combining dot
LowerUnit(c) == IF c \in DOMAIN LowerOf THEN LowerOf[c] ELSE <<c>>

\* String.prototype.toUpperCase: code point by code point, a surrogate pair
\* being one code point
RECURSIVE toUpperCase(_)
toUpperCase(s) ==
    IF s = <<>> THEN <<>>
    ELSE IF Len(s) >= 2 /\ SubSeq(s, 1, 2) \in DOMAIN UpperSurrogateOf
    THEN UpperSurrogateOf[SubSeq(s, 1, 2)] \o toUpperCase(SubSeq(s, 3, Len(s)))
    ELSE UpperUnit(Head(s)) \o toUpperCase(Tail(s))

\* Array.prototype.join of an array of strings: the elements in order with
\* sep between neighbours (computed by halves to keep the evaluation shallow)
RECURSIVE join(_, _)
join(pieces, sep) ==
    IF pieces = <<>> THEN <<>>
    ELSE IF Len(pieces) = 1 THEN pieces[1]
    ELSE LET h == Len(pieces) \div 2
         IN  join(SubSeq(pieces, 1, h), sep) \o sep
                \o join(SubSeq(pieces, h + 1, Len(pieces)), sep)

(***************************************************************************)
(* The transformer, src/index.js:36-75                                     *)
(***************************************************************************)
PACKAGE_MAX_REPEAT == 200

\* s.split('').map((ch, idx) => ...).join(''); idx counts from 0
RECURSIVE altCaseFrom(_, _, _)
altCaseFrom(s, i, idx) ==
    IF s = <<>> THEN <<>>
    ELSE (IF idx % 2 = i % 2 THEN UpperUnit(Head(s)) ELSE LowerUnit(Head(s)))
         \o altCaseFrom(Tail(s), i, idx + 1)

\* mutant: positions counted from 1
altCase_fromOne(s, i) == altCaseFrom(s, i, 1)

altCase(s, i) == altCaseFrom(s, i, 0)

\* mutant: the unit is written over its neighbour instead of moved in
InsertAt_overwrite(s, p, e) ==
    SubSeq(s, 1, p) \o <<e>> \o SubSeq(s, p + 2, Len(s))

InsertAt(s, p, e) == SubSeq(s, 1, p) \o <<e>> \o SubSeq(s, p + 1, Len(s))

\* t.split('').sort(() => Math.random() - 0.5).join(''): the comparator's
\* answers are random, so each unit may land anywhere among those placed
\* before it.  c[k] is the place (0 .. k-1) the random answers give unit k.
RECURSIVE sortRandomFrom(_, _, _, _)
sortRandomFrom(s, c, k, acc) ==
    IF k > Len(s) THEN acc
    ELSE sortRandomFrom(s, c, k + 1, InsertAt(acc, c[k], s[k]))

sortRandom(s, c) == sortRandomFrom(s, c, 1, <<>>)

\* the sequences of places the random comparator can produce for L units
RandomPlaces(L) == {c \in [1..L -> 0..(L - 1)] : \A k \in 1..L : c[k] < k}

Funny == Str(<<"f", "u", "n", "n", "y">>)
Caps == Str(<<"c", "a", "p", "s">>)
Shuffle == Str(<<"s", "h", "u", "f", "f", "l", "e">>)
Echo == Str(<<"e", "c", "h", "o">>)

\* mutant: the upper bound is exclusive
yapSafeN_exclusiveMax(n) ==
    Max(1, Min(PACKAGE_MAX_REPEAT - 1, Or(parseInt(n), Num(3)).v))

\* mutant: the default of the HTTP handler, 1, in place of 3
yapSafeN_default1(n) ==
    Max(1, Min(PACKAGE_MAX_REPEAT, Or(parseInt(n), Num(1)).v))

\* line 45
yapSafeN(n) ==
    Max(1, Min(PACKAGE_MAX_REPEAT, Or(parseInt(n), Num(3)).v))

\* the switch of lines 50-63 for repetition i
yapTransform(t, mode, i, c) ==
    CASE mode = Caps -> toUpperCase(t)
      [] mode = Shuffle -> sortRandom(t, c)
      [] mode = Funny ->
            altCase(t, i) \o (IF i % 2 = 0 THEN <<"!">> ELSE <<".", ".", ".">>)
      [] OTHER -> t

\* line 64
yapPiece(text, o, i, c) ==
    ToString(o.prefix) \o yapTransform(ToString(text), o.mode, i, c)
        \o ToString(o.suffix)

\* lines 37-43: the options with their defaults
yapOpts(opts) ==
    [n |-> Default(opts.n, Num(3)),
     sep |-> Default(opts.sep, Str(<<" ">>)),
     mode |-> Default(opts.mode, Echo),
     prefix |-> Default(opts.prefix, Str(<<>>)),
     suffix |-> Default(opts.suffix, Str(<<>>))]

\* the pieces array after the loop of lines 48-65; rnd[i + 1] holds the
\* random places of repetition i
yapPieces(text, opts, rnd) ==
    LET o == yapOpts(opts)
    IN  [k \in 1..yapSafeN(o.n) |->
            yapPiece(Default(text, Str(<<>>)), o, k - 1, rnd[k])]

yap(text, opts, rnd) ==
    join(yapPieces(text, opts, rnd), ToString(yapOpts(opts).sep))

\* the random places one yap call consumes: one sequence per repetition in
\* mode shuffle, none otherwise
yapRandom(text, opts) ==
    LET o == yapOpts(opts)
        L == Len(ToString(Default(text, Str(<<>>))))
    IN  IF o.mode = Shuffle
        THEN [1..yapSafeN(o.n) -> RandomPlaces(L)]
        ELSE {[k \in 1..yapSafeN(o.n) |-> <<>>]}

(***************************************************************************)
(* The CLI, src/index.js:166-215                                           *)
(***************************************************************************)
NoFlags == [k \in {} |-> Undefined]
Get(flags, key) == IF key \in DOMAIN flags THEN flags[key] ELSE Undefined
Put(flags, key, val) ==
    [k \in DOMAIN flags \cup {key} |-> IF k = key THEN val ELSE flags[k]]

\* the loop of lines 171-194 from argument i (counted from 1) on
RECURSIVE cliParse(_, _, _, _)
cliParse(args, i, flags, positionals) ==
    IF i > Len(args) THEN [flags |-> flags, positionals |-> positionals]
    ELSE
        LET a == args[i]
            next == IF i + 1 <= Len(args) THEN Str(args[i + 1]) ELSE Undefined
            takes == Truthy(next) /\ ~StartsWith(next.s, <<"-">>)
            dashes == IF StartsWith(a, <<"-", "-">>) THEN 2
                      ELSE IF StartsWith(a, <<"-">>) THEN 1 ELSE 0
        IN  IF dashes > 0
            THEN IF takes
                 THEN cliParse(args, i + 2,
                               Put(flags, Slice(a, dashes), next), positionals)
                 ELSE cliParse(args, i + 1,
                               Put(flags, Slice(a, dashes), True), positionals)
            ELSE cliParse(args, i + 1, flags, Append(positionals, a))

cliFlags(args) == cliParse(args, 1, NoFlags, <<>>)

\* line 196
cliServerMode(args) ==
    LET f == cliFlags(args).flags
    IN  Truthy(Get(f, <<"s", "e", "r", "v", "e", "r">>)) \/ Truthy(Get(f, <<"s">>))

\* line 197
cliPort(args) ==
    LET f == cliFlags(args).flags
        given == Or(Or(Get(f, <<"p", "o", "r", "t">>), Get(f, <<"p">>)), Num(3000))
    IN  Or(parseInt(given), Num(3000)).v

\* lines 202-207: the arguments of the yap call of line 209
cliYapArgs(args) ==
    LET p == cliFlags(args)
        f == p.flags
    IN  [text |-> IF Len(p.positionals) > 0
                  THEN Str(join(p.positionals, <<" ">>))
                  ELSE Or(Or(Get(f, <<"m", "s", "g">>), Get(f, <<"m">>)), Str(<<>>)),
         opts |->
            [n |-> Or(Or(Or(Get(f, <<"n">>), Get(f, <<"N">>)),
                         Get(f, <<"c", "o", "u", "n", "t">>)), Num(1)),
             sep |-> Or(Or(Get(f, <<"s", "e", "p">>), Get(f, <<"s">>)), Str(<<" ">>)),
             mode |-> Or(Get(f, <<"m", "o", "d", "e">>), Echo),
             prefix |-> Or(Get(f, <<"p", "r", "e", "f", "i", "x">>), Str(<<>>)),
             suffix |-> Or(Get(f, <<"s", "u", "f", "f", "i", "x">>), Str(<<>>))]]

(***************************************************************************)
(* The request handler up to its await, src/index.js:127-140               *)
(***************************************************************************)
\* line 128: url.parse(req.url, true) throws ERR_INVALID_URL on a target it
\* cannot parse, such as http://[::1/yap; nothing in the handler catches it
urlParseThrows(req) == ~req.parses

\* line 129
httpRouted(req) == req.pathname \in {"/", "/yap"}

\* line 139
httpSafeN(q) ==
    Max(1, Min(PACKAGE_MAX_REPEAT,
               Or(parseInt(Or(Or(q.n, q.count), Num(1))), Num(1)).v))

\* lines 130-140: the arguments of the yap call of line 140
httpYapArgs(q) ==
    [text |-> Or(Or(q.msg, q.message), Str(<<>>)),
     opts |-> [n |-> Num(httpSafeN(q)),
               sep |-> Or(q.sep, Str(<<" ">>)),
               mode |-> Or(q.mode, Echo),
               prefix |-> Or(q.prefix, Str(<<>>)),
               suffix |-> Or(q.suffix, Str(<<>>))]]

\* line 91
SendOk ==
    [ok |-> TRUE,
     info |-> "simulated-send (fill integrateWithService with real code)"]
NoSend == [ok |-> FALSE, info |-> "none"]

\* lines 145-146 and 151-152
Response200(payload, sendRes) ==
    [status |-> 200, ok |-> TRUE, payload |-> payload, sendRes |-> sendRes,
     error |-> "none"]
Response404 ==
    [status |-> 404, ok |-> FALSE, payload |-> <<>>, sendRes |-> NoSend,
     error |-> "not found"]

(***************************************************************************)
(* Inputs of the transformer runs                                          *)
(***************************************************************************)
MaxTextLen == 2
MaxShuffleN == 2
MaxArgs == 3

TextUnits == {"a", "B", "U+00DF", "U+0130"}

\* e with acute, n preceded by apostrophe, micro sign, Kelvin sign, the
\* letter U+10428 as its surrogate pair, its low surrogate alone, lambda
\* with stroke and its capital, and the Garay letter U+10D70 as its pair
OtherTexts ==
    {<<"U+00E9">>, <<"U+0149">>, <<"U+00B5">>, <<"U+212A">>,
     <<"U+D801", "U+DC28">>, <<"U+DC28">>, <<"U+019B">>, <<"U+A7DC">>,
     <<"U+D803", "U+DD70">>}

Texts == UNION {[1..L -> TextUnits] : L \in 0..MaxTextLen} \cup OtherTexts

Counts == {-7, -1, 0, 1, 2, 3, 200, 201, 1000}
Modes == {Undefined, Echo, Caps, Funny, Shuffle, Str(<<"l", "o", "u", "d">>)}
Seps == {Undefined, Str(<<"-">>), Str(<<>>)}
Wraps == {<<Undefined, Undefined>>, <<Str(<<"[">>), Str(<<"]">>)>>}

\* yap(text, {n, sep, mode, prefix, suffix}) called directly; the random
\* places of mode shuffle are enumerated for up to MaxShuffleN repetitions
DirectInputs ==
    {[text |-> Str(t),
      opts |-> [n |-> n, sep |-> sep, mode |-> mode,
                prefix |-> w[1], suffix |-> w[2]]] :
        t \in Texts, n \in {Num(c) : c \in Counts} \cup {Undefined},
        sep \in Seps, mode \in Modes \ {Shuffle}, w \in Wraps}
    \cup
    {[text |-> Str(t),
      opts |-> [n |-> Num(c), sep |-> Undefined, mode |-> Shuffle,
                prefix |-> w[1], suffix |-> w[2]]] :
        t \in Texts, c \in 1..MaxShuffleN, w \in Wraps}

ArgTokens ==
    {<<"h", "i">>, <<"a", "b">>, <<"0">>, <<"-", "5">>,
     <<"2", "0", "1">>, <<"-", "n">>, <<"-", "-", "c", "o", "u", "n", "t">>,
     <<"-", "-", "m", "o", "d", "e">>, <<"c", "a", "p", "s">>,
     <<"-", "-", "s", "e", "r", "v", "e", "r">>}
Argvs == UNION {[1..L -> ArgTokens] : L \in 0..MaxArgs}

\* a request as url.parse(req.url, true) takes it: whether the target
\* parses and, when it does, the path and the query
Query(msg, n, count, sep, mode, prefix, suffix) ==
    [msg |-> msg, message |-> Undefined, n |-> n, count |-> count, sep |-> sep,
     mode |-> mode, prefix |-> prefix, suffix |-> suffix]

Paths == {"/", "/yap", "/nope"}
Hi == Str(<<"h", "i">>)

\* a request whose target url.parse rejects
BadRequest ==
    [parses |-> FALSE, pathname |-> "none",
     query |-> Query(Undefined, Undefined, Undefined, Undefined, Undefined,
                     Undefined, Undefined)]

Requests ==
    {[parses |-> TRUE, pathname |-> p,
      query |-> Query(msg, n, count, sep, mode, w[1], w[2])] :
        p \in Paths, msg \in {Undefined, Hi},
        n \in {Undefined, Str(<<>>), Str(<<"0">>), Str(<<"2">>),
               Str(<<"-", "5">>), Str(<<"2", "0", "1">>), Str(<<"a", "b">>),
               Str(<<"\t", "2">>), Str(<<"U+00A0", "\n", "3">>)},
        count \in {Undefined, Str(<<"3">>), Str(<<"x">>)},
        sep \in {Undefined, Str(<<"-">>)}, mode \in {Undefined, Caps, Funny},
        w \in Wraps}
    \cup {BadRequest}

NoOut ==
    [kind |-> "none", pieces |-> <<>>, result |-> <<>>, port |-> 0,
     status |-> 0, sendRes |-> NoSend]

\* what one call yap(text, opts) leaves: its pieces array and its result
YapOut(kind, text, opts, rnd) ==
    LET pieces == yapPieces(text, opts, rnd)
    IN  [NoOut EXCEPT !.kind = kind,
                      !.pieces = pieces,
                      !.result = join(pieces, ToString(yapOpts(opts).sep))]

(***************************************************************************)
(* The simulated integration, src/index.js:83-96                           *)
(***************************************************************************)
\* the value the promise of integrateWithService resolves to, once the
\* timer of sleep(200) has fired
integrateWithService(transformedText, config) == SendOk

(***************************************************************************)
(* One transformer run through each entry point                            *)
(***************************************************************************)
NoRet ==
    [op |-> "none", ok |-> FALSE, info |-> "none", error |-> "none",
     config |-> <<>>]

BotIdle ==
    /\ isRunning = FALSE /\ loops = <<>> /\ phase = <<>> /\ woke = <<>>
    /\ ret = NoRet
    /\ calls = 0
    /\ defaultAccount = <<>>

HttpIdle ==
    /\ reqs = <<>> /\ sends = <<>> /\ resps = <<>>

YapIdle ==
    /\ front = "none" /\ input = <<>> /\ pc = "done" /\ out = NoOut

Init ==
    /\ \/ front = "yap" /\ input \in DirectInputs
       \/ front = "cli" /\ input \in Argvs
       \/ front = "http" /\ input \in Requests
    /\ pc = "entry"
    /\ out = NoOut
    /\ BotIdle
    /\ HttpIdle

\* a direct call of the exported yap
yapCall ==
    /\ front = "yap" /\ pc = "entry"
    /\ \E rnd \in yapRandom(input.text, input.opts) :
            out' = YapOut("yap", input.text, input.opts, rnd)
    /\ pc' = "done"
    /\ UNCHANGED <<front, input, botVars, httpVars>>

\* lines 167-210: parse argv, then listen or transform and print
cliMain ==
    /\ front = "cli" /\ pc = "entry"
    /\ IF cliServerMode(input)
       THEN /\ out' = [NoOut EXCEPT !.kind = "server", !.port = cliPort(input)]
            /\ pc' = "done"
       ELSE /\ LET a == cliYapArgs(input)
               IN  \E rnd \in yapRandom(a.text, a.opts) :
                        out' = YapOut("cli", a.text, a.opts, rnd)
            /\ pc' = "sending"
    /\ UNCHANGED <<front, input, botVars, httpVars>>

\* lines 213-214: the integration call resolves and its result is printed
cliSendResult ==
    /\ front = "cli" /\ pc = "sending"
    /\ out' = [out EXCEPT !.sendRes = integrateWithService(out.result, defaultAccount)]
    /\ pc' = "done"
    /\ UNCHANGED <<front, input, botVars, httpVars>>

\* lines 127-152 for one request: up to the await, or the 404; when
\* url.parse throws, the handler's promise rejects with nothing written and
\* the unhandled rejection ends the process
httpRequest ==
    /\ front = "http" /\ pc = "entry"
    /\ IF urlParseThrows(input)
       THEN /\ out' = [NoOut EXCEPT !.kind = "http"]
            /\ pc' = "exited"
       ELSE IF httpRouted(input)
       THEN /\ LET a == httpYapArgs(input.query)
               IN  \E rnd \in yapRandom(a.text, a.opts) :
                        out' = YapOut("http", a.text, a.opts, rnd)
            /\ pc' = "sending"
       ELSE /\ out' = [NoOut EXCEPT !.kind = "http", !.status = 404]
            /\ pc' = "done"
    /\ UNCHANGED <<front, input, botVars, httpVars>>

\* lines 143-147: the integration call resolves and the 200 is written
httpRespond ==
    /\ front = "http" /\ pc = "sending"
    /\ out' = [out EXCEPT !.status = 200,
                          !.sendRes = integrateWithService(out.result, defaultAccount)]
    /\ pc' = "done"
    /\ UNCHANGED <<front, input, botVars, httpVars>>

Next ==
    \/ yapCall
    \/ cliMain
    \/ cliSendResult
    \/ httpRequest
    \/ httpRespond

Spec == Init /\ [][Next]_vars

(***************************************************************************)
(* Properties of the transformer and of the counts the front-ends give it  *)
(***************************************************************************)
\* the run called yap and the call returned
Transformed == out.kind \in {"yap", "cli", "http"} /\ out.pieces # <<>>

\* the text and options the run's entry point handed to yap
TheCall ==
    IF front = "yap" THEN input
    ELSE IF front = "cli" THEN cliYapArgs(input)
    ELSE httpYapArgs(input.query)

CallText == ToString(Default(TheCall.text, Str(<<>>)))
CallOpts == yapOpts(TheCall.opts)

\* res is c copies of piece with sep between neighbours
IsJoined(res, c, piece, sep) ==
    LET stride == Len(piece) + Len(sep)
    IN  /\ Len(res) = c * Len(piece) + (c - 1) * Len(sep)
        /\ \A k \in 0..(c - 1) :
            /\ SubSeq(res, k * stride + 1, k * stride + Len(piece)) = piece
            /\ k < c - 1 =>
                SubSeq(res, k * stride + Len(piece) + 1, (k + 1) * stride) = sep

\* C3: a direct call of yap with an integer count c in 1..200 returns exactly
\* c pieces joined by the separator, each piece prefix + T(text) + suffix, T
\* the identity for echo and for an unrecognised mode, upper-casing for caps.
C3_PiecesJoined ==
    (front = "yap" /\ pc = "done" /\ input.opts.n.kind = "number"
        /\ input.opts.n.v \in 1..PACKAGE_MAX_REPEAT
        /\ input.opts.mode \notin {Shuffle, Funny})
    => LET c == input.opts.n.v
           sep == IF input.opts.sep = Undefined THEN <<" ">> ELSE input.opts.sep.s
           pre == IF input.opts.prefix = Undefined THEN <<>> ELSE input.opts.prefix.s
           suf == IF input.opts.suffix = Undefined THEN <<>> ELSE input.opts.suffix.s
           piece == pre \o (IF input.opts.mode = Caps THEN toUpperCase(input.text.s)
                            ELSE input.text.s) \o suf
       IN  /\ Len(out.pieces) = c
           /\ \A k \in 1..c : out.pieces[k] = piece
           /\ IsJoined(out.result, c, piece, sep)

C3_Witness ==
    /\ front = "yap" /\ pc = "done"
    /\ input.opts.n = Num(PACKAGE_MAX_REPEAT)
    /\ input.opts.mode = Str(<<"l", "o", "u", "d">>)
    /\ input.opts.sep = Str(<<"-">>)
    /\ input.text = Str(<<"a", "B">>)
    /\ Len(out.pieces) = PACKAGE_MAX_REPEAT
    /\ Len(out.result) = 3 * PACKAGE_MAX_REPEAT - 1

IsIntToken(tok) ==
    LET ds == IF tok # <<>> /\ Head(tok) = "-" THEN Tail(tok) ELSE tok
    IN  ds # <<>> /\ \A k \in 1..Len(ds) : IsDigit(ds[k])

CountFlags == {<<"-", "n">>, <<"-", "-", "c", "o", "u", "n", "t">>}

\* argv names the count once: the token after its only count flag, or <<>>
CliCountToken(args) ==
    LET at == {k \in 1..Len(args) : args[k] \in CountFlags}
    IN  IF Cardinality(at) = 1 /\ (CHOOSE k \in at : TRUE) < Len(args)
        THEN args[(CHOOSE k \in at : TRUE) + 1]
        ELSE <<>>

\* the n parameter of a query, count being its alias when n is missing
HttpCountParam(q) == IF q.n \in {Undefined, Str(<<>>)} THEN q.count ELSE q.n

\* the run was asked for an integer count
HasCount ==
    IF front = "yap" THEN input.opts.n.kind = "number"
    ELSE IF front = "cli" THEN IsIntToken(CliCountToken(input))
    ELSE /\ HttpCountParam(input.query).kind = "string"
         /\ IsIntToken(HttpCountParam(input.query).s)

\* that count
CountGiven ==
    IF front = "yap" THEN input.opts.n.v
    ELSE IF front = "cli" THEN parseInt(Str(CliCountToken(input))).v
    ELSE parseInt(HttpCountParam(input.query)).v

\* C4: an integer count below 1 given directly, on the CLI or in the query
\* yields exactly 1 piece, and one above 200 yields exactly 200 pieces.
C4_Clamped ==
    (Transformed /\ HasCount)
    => /\ CountGiven < 1 => Len(out.pieces) = 1
       /\ CountGiven > PACKAGE_MAX_REPEAT => Len(out.pieces) = PACKAGE_MAX_REPEAT

\* C5: a count on the CLI that does not parse as a number gives 3 pieces, a
\* missing or non-numeric n/count parameter of a request gives 1 piece, and
\* the run completes with its normal output in both cases.
C5_NonNumericDefaulted ==
    /\ (front = "cli" /\ pc # "entry" /\ ~cliServerMode(input)
            /\ CliCountToken(input) # <<>>
            /\ ~StartsWith(CliCountToken(input), <<"-">>)
            /\ parseInt(Str(CliCountToken(input))) = NaN)
        => out.kind = "cli" /\ Len(out.pieces) = 3
    /\ (front = "http" /\ pc # "entry" /\ input.parses
            /\ input.pathname \in {"/", "/yap"}
            /\ (HttpCountParam(input.query) = Undefined
                \/ parseInt(HttpCountParam(input.query)) = NaN))
        => /\ out.kind = "http" /\ Len(out.pieces) = 1
           /\ pc = "done" => out.status = 200

C5_Witness ==
    /\ front = "cli" /\ pc = "done"
    /\ input = <<<<"h", "i">>, <<"-", "n">>, <<"a", "b">>>>
    /\ out.result = <<"h", "i", " ", "h", "i", " ", "h", "i">>
    /\ out.sendRes.ok

\* the run transformed its text in mode funny
FunnyRun == Transformed /\ CallOpts.mode = Funny

Marker(i) == IF i % 2 = 0 THEN <<"!">> ELSE <<".", ".", ".">>

\* the case mapping repetition i applies to the unit at position idx of text
CaseMapped(text, i, idx) ==
    IF idx % 2 = i % 2 THEN UpperUnit(text[idx + 1]) ELSE LowerUnit(text[idx + 1])

\* where the mapping of position idx starts in piece i: after the mappings
\* of the positions before it
RECURSIVE MappedBefore(_, _, _)
MappedBefore(text, i, idx) ==
    IF idx = 0 THEN 0
    ELSE MappedBefore(text, i, idx - 1) + Len(CaseMapped(text, i, idx - 1))

\* C7 as stated: in mode funny piece i has the length of the text plus that
\* of its marker, ends with "!" (i even) or "..." (i odd), and holds at each
\* position idx the character upper-cased when idx mod 2 = i mod 2 and
\* lower-cased otherwise.
C7_LengthPreserved ==
    FunnyRun =>
        LET text == CallText
            pre == Len(ToString(CallOpts.prefix))
            suf == Len(ToString(CallOpts.suffix))
        IN  \A i \in 0..(Len(out.pieces) - 1) :
                LET core == SubSeq(out.pieces[i + 1], pre + 1,
                                   Len(out.pieces[i + 1]) - suf)
                IN  /\ Len(core) = Len(text) + Len(Marker(i))
                    /\ SubSeq(core, Len(text) + 1, Len(core)) = Marker(i)
                    /\ \A idx \in 0..(Len(text) - 1) :
                            <<core[idx + 1]>> = CaseMapped(text, i, idx)

\* C7 amended: piece i is the case mappings of the text's units in order,
\* upper-casing at the positions idx with idx mod 2 = i mod 2 and
\* lower-casing at the others, followed by the marker; when each mapping is
\* one unit long the piece has the length of the text plus that of the
\* marker and position idx holds the mapped character.
C7_CaseMappedUnits ==
    FunnyRun =>
        LET text == CallText
            pre == Len(ToString(CallOpts.prefix))
            suf == Len(ToString(CallOpts.suffix))
        IN  \A i \in 0..(Len(out.pieces) - 1) :
                LET core == SubSeq(out.pieces[i + 1], pre + 1,
                                   Len(out.pieces[i + 1]) - suf)
                    body == MappedBefore(text, i, Len(text))
                IN  /\ Len(core) = body + Len(Marker(i))
                    /\ SubSeq(core, body + 1, Len(core)) = Marker(i)
                    /\ \A idx \in 0..(Len(text) - 1) :
                            SubSeq(core, MappedBefore(text, i, idx) + 1,
                                   MappedBefore(text, i, idx + 1))
                                = CaseMapped(text, i, idx)
                    /\ (\A idx \in 0..(Len(text) - 1) :
                            Len(CaseMapped(text, i, idx)) = 1)
                        => /\ Len(core) = Len(text) + Len(Marker(i))
                           /\ \A idx \in 0..(Len(text) - 1) :
                                <<core[idx + 1]>> = CaseMapped(text, i, idx)

C7_Witness ==
    /\ front = "yap" /\ pc = "done" /\ input.opts.mode = Funny
    /\ input.text = Str(<<"a", "U+00DF">>)
    /\ input.opts.n = Num(2) /\ input.opts.sep = Undefined
    /\ input.opts.prefix = Undefined
    /\ out.result = <<"A", "U+00DF", "!", " ", "a", "S", "S", ".", ".", ".">>

Occurrences(s, u) == Cardinality({k \in 1..Len(s) : s[k] = u})

\* C8: in mode shuffle every piece, without its prefix and suffix, has the
\* length of the text and holds each unit as often as the text does,
\* whatever the random comparisons answered.
C8_Permutation ==
    (Transformed /\ CallOpts.mode = Shuffle) =>
        LET text == CallText
            pre == Len(ToString(CallOpts.prefix))
            suf == Len(ToString(CallOpts.suffix))
        IN  \A k \in 1..Len(out.pieces) :
                LET core == SubSeq(out.pieces[k], pre + 1, Len(out.pieces[k]) - suf)
                IN  /\ Len(core) = Len(text)
                    /\ \A u \in TextUnits :
                            Occurrences(core, u) = Occurrences(text, u)

C8_Witness ==
    /\ front = "yap" /\ pc = "done" /\ input.opts.mode = Shuffle
    /\ input.text = Str(<<"a", "B">>) /\ input.opts.n = Num(2)
    /\ input.opts.prefix = Str(<<"[">>)
    /\ out.pieces = <<<<"[", "B", "a", "]">>, <<"[", "a", "B", "]">>>>

(***************************************************************************)
(* The bot runner, src/index.js:101-121                                    *)
(***************************************************************************)
MaxCalls == 5

\* what safeReadJSON(account.json) || {} can give, and the opts of a call
Accounts == {<<>>, [user |-> "file"]}
BotOpts == {<<>>, [user |-> "call"], [delay |-> "call"]}

\* { ...a, ...b }
Merge(a, b) ==
    [k \in DOMAIN a \cup DOMAIN b |-> IF k \in DOMAIN b THEN b[k] ELSE a[k]]

InitBot ==
    /\ isRunning = FALSE
    /\ loops = <<>> /\ phase = <<>> /\ woke = <<>>
    /\ ret = NoRet
    /\ calls = 0
    /\ defaultAccount \in Accounts
    /\ YapIdle
    /\ HttpIdle

\* mutant: the guard of line 105 is missing
startBot_noGuard(opts) ==
    /\ calls < MaxCalls
    /\ isRunning' = TRUE
    /\ loops' = Append(loops, "sleeping")
    /\ phase' = Append(phase, "running")
    /\ woke' = Append(woke, FALSE)
    /\ ret' = [op |-> "startBot", ok |-> TRUE, info |-> "bot started",
               error |-> "none", config |-> Merge(defaultAccount, opts)]
    /\ calls' = calls + 1
    /\ UNCHANGED <<defaultAccount, yapVars, httpVars>>

\* lines 104-115; the loop of lines 108-113 runs to its first await inside
\* the call: it finds the flag set and goes to sleep
startBot(opts) ==
    /\ calls < MaxCalls
    /\ IF isRunning
       THEN /\ ret' = [op |-> "startBot", ok |-> FALSE, info |-> "none",
                       error |-> "bot already running", config |-> <<>>]
            /\ UNCHANGED <<isRunning, loops, phase, woke>>
       ELSE /\ isRunning' = TRUE
            /\ loops' = Append(loops, "sleeping")
            /\ phase' = Append(phase, "running")
            /\ woke' = Append(woke, FALSE)
            /\ ret' = [op |-> "startBot", ok |-> TRUE, info |-> "bot started",
                       error |-> "none", config |-> Merge(defaultAccount, opts)]
    /\ calls' = calls + 1
    /\ UNCHANGED <<defaultAccount, yapVars, httpVars>>

\* lines 117-121
stopBot ==
    /\ calls < MaxCalls
    /\ IF ~isRunning
       THEN /\ ret' = [op |-> "stopBot", ok |-> FALSE, info |-> "none",
                       error |-> "bot not running", config |-> <<>>]
            /\ UNCHANGED <<isRunning, phase, woke>>
       ELSE /\ isRunning' = FALSE
            /\ phase' = [l \in DOMAIN phase |->
                            IF phase[l] = "running" THEN "stopped" ELSE phase[l]]
            /\ woke' = [l \in DOMAIN woke |-> FALSE]
            /\ ret' = [op |-> "stopBot", ok |-> TRUE, info |-> "bot stopped",
                       error |-> "none", config |-> <<>>]
    /\ calls' = calls + 1
    /\ UNCHANGED <<loops, defaultAccount, yapVars, httpVars>>

\* lines 109-112: the timer of sleep(60_000) fires, the loop tests the flag
\* and sleeps again or ends
heartbeatWake(l) ==
    /\ loops[l] = "sleeping"
    /\ loops' = IF isRunning THEN loops ELSE [loops EXCEPT ![l] = "ended"]
    /\ phase' = [phase EXCEPT ![l] = IF @ = "stopped" THEN "late" ELSE @]
    /\ woke' = [woke EXCEPT ![l] = TRUE]
    /\ UNCHANGED <<isRunning, ret, calls, defaultAccount, yapVars, httpVars>>

NextBot ==
    \/ \E opts \in BotOpts : startBot(opts)
    \/ stopBot
    \/ \E l \in DOMAIN loops : heartbeatWake(l)

SpecBot == InitBot /\ [][NextBot]_vars

Sleeping == {l \in DOMAIN loops : loops[l] = "sleeping"}

\* C1: startBot succeeds exactly when the flag was false and otherwise fails
\* with 'bot already running'; stopBot succeeds exactly when the flag was
\* true and otherwise fails with 'bot not running'; a failing call leaves the
\* flag as it was, a successful start sets it, a successful stop clears it.
C1_StartStop ==
    [][calls' # calls =>
        /\ ret'.op = "startBot" =>
            /\ ret'.ok <=> ~isRunning
            /\ ret'.ok => isRunning'
            /\ ~ret'.ok => ret'.error = "bot already running" /\ isRunning' = isRunning
        /\ ret'.op = "stopBot" =>
            /\ ret'.ok <=> isRunning
            /\ ret'.ok => ~isRunning'
            /\ ~ret'.ok => ret'.error = "bot not running" /\ isRunning' = isRunning
        /\ ret'.op \in {"startBot", "stopBot"}]_vars

\* start, stop, stop: the last call fails
C1_Witness ==
    /\ calls = 3 /\ Len(loops) = 1 /\ ~isRunning
    /\ ret.op = "stopBot" /\ ~ret.ok /\ ret.error = "bot not running"

\* C2: a heartbeat loop ends at the latest at its first wake after the
\* stopBot that ended its run, whatever was called in between.
C2_EndsAtFirstWake ==
    [][\A l \in DOMAIN loops :
        (phase[l] = "stopped" /\ phase'[l] = "late") => loops'[l] = "ended"]_vars

\* C10: at most one heartbeat loop is alive, and none is alive while the
\* flag is false once every loop has woken since the flag was cleared.
C10_OneLoop ==
    /\ Cardinality(Sleeping) <= 1
    /\ (~isRunning /\ \A l \in Sleeping : woke[l]) => Sleeping = {}

(***************************************************************************)
(* The HTTP server with several requests in flight, src/index.js:126-153   *)
(***************************************************************************)
MaxReqs == 2

Ab == Str(<<"a", "b">>)
U == Undefined

\* the requests the concurrent runs draw from
ConcurrentRequests ==
    {[parses |-> TRUE, pathname |-> "/yap", query |-> q] :
        q \in {Query(Hi, Str(<<"2">>), U, U, Caps, U, U),
               Query(Hi, U, U, U, U, U, U),
               Query(Hi, Str(<<"0">>), U, Str(<<"-">>), Funny, U, U),
               Query(U, Str(<<"x">>), Str(<<"3">>), U, U, Str(<<"[">>), Str(<<"]">>)),
               [Query(U, U, Str(<<"2">>), U, Shuffle, U, U) EXCEPT !.message = Ab]}}
    \cup {[parses |-> TRUE, pathname |-> "/",
           query |-> Query(Hi, Str(<<"\t", "2">>), U, U, Caps, U, U)],
          [parses |-> TRUE, pathname |-> "/", query |-> Query(U, U, U, U, U, U, U)],
          [parses |-> TRUE, pathname |-> "/nope",
           query |-> Query(Hi, Str(<<"2">>), U, U, Caps, U, U)],
          BadRequest}

NoRequest ==
    [parses |-> TRUE, pathname |-> "none", query |-> Query(U, U, U, U, U, U, U)]

InitHttp ==
    /\ reqs = [r \in 1..MaxReqs |->
                [st |-> "idle", req |-> NoRequest, resultText |-> <<>>]]
    /\ sends = [r \in 1..MaxReqs |-> [st |-> "none", result |-> NoSend]]
    /\ resps = [r \in 1..MaxReqs |-> <<>>]
    /\ BotIdle
    /\ YapIdle

\* the process has ended on the unhandled rejection of a handler: Node
\* exits with code 1, the server and every pending timer go with it
Exited == \E r \in 1..MaxReqs : reqs[r].st = "threw"

\* lines 127-143 and 150-152: request r arrives and its handler runs to the
\* await of the integration call, or writes the 404, or throws at line 128
\* and writes nothing
httpArrive(r, req) ==
    /\ ~Exited
    /\ reqs[r].st = "idle"
    /\ IF urlParseThrows(req)
       THEN /\ reqs' = [reqs EXCEPT ![r] =
                    [st |-> "threw", req |-> req, resultText |-> <<>>]]
            /\ UNCHANGED <<sends, resps>>
       ELSE IF httpRouted(req)
       THEN LET a == httpYapArgs(req.query)
            IN  \E rnd \in yapRandom(a.text, a.opts) :
                    /\ reqs' = [reqs EXCEPT ![r] =
                            [st |-> "awaiting", req |-> req,
                             resultText |-> yap(a.text, a.opts, rnd)]]
                    /\ sends' = [sends EXCEPT ![r] =
                            [st |-> "sleeping", result |-> NoSend]]
                    /\ UNCHANGED resps
       ELSE /\ reqs' = [reqs EXCEPT ![r] =
                    [st |-> "done", req |-> req, resultText |-> <<>>]]
            /\ resps' = [resps EXCEPT ![r] = Append(@, Response404)]
            /\ UNCHANGED sends
    /\ UNCHANGED <<botVars, yapVars>>

\* lines 90-91 and 143-147: the timer of request r's integration call fires,
\* the call resolves and the handler writes the 200
timerFire(r) ==
    /\ ~Exited
    /\ sends[r].st = "sleeping"
    /\ LET sendRes == integrateWithService(reqs[r].resultText, defaultAccount)
       IN  /\ sends' = [sends EXCEPT ![r] = [st |-> "resolved", result |-> sendRes]]
           /\ resps' = [resps EXCEPT ![r] =
                            Append(@, Response200(reqs[r].resultText, sendRes))]
    /\ reqs' = [reqs EXCEPT ![r].st = "done"]
    /\ UNCHANGED <<botVars, yapVars>>

NextHttp ==
    \/ \E r \in 1..MaxReqs : \E req \in ConcurrentRequests : httpArrive(r, req)
    \/ \E r \in 1..MaxReqs : timerFire(r)

\* a timer that is set fires while the process lives: the event loop runs
\* every due callback
SpecHttp ==
    InitHttp /\ [][NextHttp]_vars /\ \A r \in 1..MaxReqs : WF_vars(timerFire(r))

\* a parameter with its default: an empty value counts as missing
Param(x, d) == IF x \in {Undefined, Str(<<>>)} THEN d ELSE x

\* the count of a request: its n (or count) parameter clamped to 1..200,
\* and 1 when that is missing, not a number or zero
RequestCount(q) ==
    LET p == parseInt(Param(HttpCountParam(q), Num(1)))
    IN  IF p = NaN \/ p.v = 0 THEN 1
        ELSE IF p.v < 1 THEN 1
        ELSE IF p.v > PACKAGE_MAX_REPEAT THEN PACKAGE_MAX_REPEAT
        ELSE p.v

\* the outputs the transformer can give for the request's own parameters
Payloads(q) ==
    LET text == Param(q.msg, Param(q.message, Str(<<>>)))
        opts == [n |-> Num(RequestCount(q)), sep |-> Param(q.sep, Str(<<" ">>)),
                 mode |-> Param(q.mode, Echo), prefix |-> Param(q.prefix, Str(<<>>)),
                 suffix |-> Param(q.suffix, Str(<<>>))]
    IN  {yap(text, opts, rnd) : rnd \in yapRandom(text, opts)}

\* C6: a request whose handler has finished has exactly one response,
\* decided by its path: 200 with ok and the transformer's output for its own
\* parameters on / and /yap, 404 with 'not found' elsewhere, also with other
\* requests in flight.
C6_OneResponsePerPath ==
    \A r \in 1..MaxReqs :
        /\ Len(resps[r]) <= 1
        /\ reqs[r].st \in {"idle", "awaiting"} => resps[r] = <<>>
        /\ reqs[r].st \in {"done", "threw"} =>
            /\ Len(resps[r]) = 1
            /\ IF reqs[r].req.parses /\ reqs[r].req.pathname \in {"/", "/yap"}
               THEN /\ resps[r][1].status = 200 /\ resps[r][1].ok
                    /\ resps[r][1].payload \in Payloads(reqs[r].req.query)
               ELSE /\ resps[r][1].status = 404 /\ ~resps[r][1].ok
                    /\ resps[r][1].error = "not found"

\* the calls of integrateWithService still waiting for their delay
Pending == {r \in 1..MaxReqs : sends[r].st = "sleeping"}

\* C9: every integration call completes after its delay with a successful
\* result, whatever other calls are pending; a 200 is written only once the
\* request's own call has completed; every request on / or /yap is answered.
C9_IntegrationCompletes ==
    /\ [](\A r \in 1..MaxReqs :
            /\ sends[r].st = "resolved" => sends[r].result.ok
            /\ (resps[r] # <<>> /\ resps[r][1].status = 200) =>
                    sends[r].st = "resolved" /\ resps[r][1].sendRes = sends[r].result)
    /\ \A r \in 1..MaxReqs :
            (r \in Pending) ~> (sends[r].st = "resolved" /\ Len(resps[r]) = 1)

=============================================================================
